---------------------------- MODULE Spec2Model ----------------------------
(***************************************************************************)
(* A model of the ingestion / reconciliation engine of er_stats:           *)
(* IngestionManager (src/src/er_stats/ingest.py) over SQLiteStore          *)
(* (src/src/er_stats/db.py).  Timestamps are abstracted to integers (an    *)
(* instant), NULL columns to NoTime / NoUid.                               *)
(***************************************************************************)
EXTENDS Integers, Sequences, FiniteSets, TLC

(* ------------------------------ bounds -------------------------------- *)
MaxTime == 3
MaxGame == 2
MaxLimit == 2
MaxCalls == 2
MaxParticipantCalls == 1
MaxListed == 3
MaxAttempts == 5
MaxNicknameAttempts == 3

(* ------------------------- program constants -------------------------- *)
NoTime == -1
uid_recheck_interval == 1
nickname_recheck_interval == 1
base_days == 1
max_days == 30

NoUid == ""
Uids == {"UA", "UB", "UC"}
Nicknames == {"seed", "dup", "far"}
Games == 1..MaxGame
Times == 0..MaxTime
TimesOrNull == Times \cup {NoTime}

VARIABLES
    store,        \* the SQLite connection's view of the tables
    committed,    \* what the last commit made durable
    mgr,          \* the IngestionManager's in-memory fields
    cfg,          \* the IngestionManager's constructor arguments
    now,          \* the clock (dt.datetime.now)
    upstream,     \* what the remote API serves: match list, start times, rosters
    call,         \* the locals of the ingest_user / refetch call in progress
    obs           \* observations of the call in progress (calls made, rejections)

vars == <<store, committed, mgr, cfg, now, upstream, call, obs>>

(* ------------------------------ helpers ------------------------------- *)
Min(a, b) == IF a <= b THEN a ELSE b

Max(a, b) == IF a > b THEN a ELSE b

Range(s) == {s[i] : i \in 1..Len(s)}

\* unixepoch(a) > unixepoch(b) in SQL: NULL on either side is not true.
SqlGreater(a, b) == a # NoTime /\ b # NoTime /\ a > b

(* --------------------------- SQLiteStore ------------------------------ *)

\* extract_uid: the payload's uid when it is a non-empty string.
extract_uid(game) == game.uid

\* The row INSERTed by upsert_user for a user not yet stored.
NewUserRow(game, mark_ingested) ==
    [nickname |-> game.nickname,
     first_seen |-> game.startDtm,
     last_seen |-> game.startDtm,
     ingested_until |-> IF mark_ingested THEN game.startDtm ELSE NoTime,
     last_checked |-> game.startDtm,
     last_mmr |-> game.mmrAfter]

\* The WHERE clause of upsert_user's ON CONFLICT DO UPDATE.
UserUpdateApplies(old, game, mark_ingested) ==
    LET excl == NewUserRow(game, mark_ingested) IN
    \/ SqlGreater(excl.last_seen, old.last_seen)
    \/ /\ excl.ingested_until # NoTime
       /\ \/ old.ingested_until = NoTime
          \/ SqlGreater(excl.ingested_until, old.ingested_until)

\* A SET clause whose last_seen is overwritten by every update that applies.
UpdatedUserRowLastSeenOverwritten(old, game, mark_ingested) ==
    LET excl == NewUserRow(game, mark_ingested) IN
    [nickname |-> excl.nickname,
     first_seen |-> old.first_seen,
     last_seen |-> excl.last_seen,
     ingested_until |->
        IF excl.ingested_until = NoTime THEN old.ingested_until
        ELSE IF old.ingested_until = NoTime THEN excl.ingested_until
        ELSE IF SqlGreater(excl.ingested_until, old.ingested_until)
             THEN excl.ingested_until
        ELSE old.ingested_until,
     last_checked |-> IF old.last_checked # NoTime THEN old.last_checked
                      ELSE excl.last_checked,
     last_mmr |-> excl.last_mmr]

\* A SET clause whose ingested_until is overwritten by every update that
\* applies.
UpdatedUserRowWatermarkOverwritten(old, game, mark_ingested) ==
    LET excl == NewUserRow(game, mark_ingested) IN
    [nickname |-> excl.nickname,
     first_seen |-> old.first_seen,
     last_seen |-> IF SqlGreater(old.last_seen, excl.last_seen)
                   THEN old.last_seen ELSE excl.last_seen,
     ingested_until |-> excl.ingested_until,
     last_checked |-> IF old.last_checked # NoTime THEN old.last_checked
                      ELSE excl.last_checked,
     last_mmr |-> excl.last_mmr]

\* The SET clause of upsert_user's ON CONFLICT DO UPDATE.
UpdatedUserRow(old, game, mark_ingested) ==
    LET excl == NewUserRow(game, mark_ingested) IN
    [nickname |-> excl.nickname,
     first_seen |-> old.first_seen,
     last_seen |-> IF SqlGreater(old.last_seen, excl.last_seen)
                   THEN old.last_seen ELSE excl.last_seen,
     ingested_until |->
        IF excl.ingested_until = NoTime THEN old.ingested_until
        ELSE IF old.ingested_until = NoTime THEN excl.ingested_until
        ELSE IF SqlGreater(excl.ingested_until, old.ingested_until)
             THEN excl.ingested_until
        ELSE old.ingested_until,
     last_checked |-> IF old.last_checked # NoTime THEN old.last_checked
                      ELSE excl.last_checked,
     last_mmr |-> excl.last_mmr]

\* upsert_user(game, mark_ingested=mark_ingested): INSERT ... ON CONFLICT(uid)
\* DO UPDATE SET ... WHERE ...
upsert_user(db, game, mark_ingested) ==
    LET uid == extract_uid(game)
        row == IF uid \in DOMAIN db.users
               THEN IF UserUpdateApplies(db.users[uid], game, mark_ingested)
                    THEN UpdatedUserRow(db.users[uid], game, mark_ingested)
                    ELSE db.users[uid]
               ELSE NewUserRow(game, mark_ingested)
    IN [db EXCEPT !.users =
            [u \in DOMAIN db.users \cup {uid} |->
                IF u = uid THEN row ELSE db.users[u]]]

\* upsert_match: a new row has incomplete = 0; an existing row keeps a set flag.
upsert_match(db, game) ==
    LET g == game.gameId
        flag == IF g \in DOMAIN db.matches /\ db.matches[g].incomplete
                THEN TRUE ELSE FALSE
        row == [start_dtm |-> game.startDtm, incomplete |-> flag]
    IN [db EXCEPT !.matches =
            [m \in DOMAIN db.matches \cup {g} |->
                IF m = g THEN row ELSE db.matches[m]]]

upsert_user_match_stats(db, game) ==
    IF extract_uid(game) = NoUid THEN db
    ELSE [db EXCEPT !.stats = @ \cup {<<game.gameId, extract_uid(game)>>}]

\* The users rows get_uid_info_for_nickname may return: those of the nickname
\* with the greatest last_seen (ORDER BY ... DESC LIMIT 1; NULL sorts last, and a
\* tie is broken by the engine).
NicknameCandidates(db, nickname) ==
    LET rows == {u \in DOMAIN db.users : db.users[u].nickname = nickname} IN
    {u \in rows : \A v \in rows : db.users[v].last_seen <= db.users[u].last_seen}

get_uid_from_nickname(db, nickname) == NicknameCandidates(db, nickname)

\* upsert_from_game_payload raises ValueError when no uid can be found.
UpsertRaises(db, game) ==
    extract_uid(game) = NoUid /\ get_uid_from_nickname(db, game.nickname) = {}

\* upsert_from_game_payload for a payload that carries a uid.
upsert_from_game_payload(db, game, mark_ingested) ==
    upsert_user_match_stats(
        upsert_match(upsert_user(db, game, mark_ingested), game), game)

has_game(db, game_id) == game_id \in DOMAIN db.matches

\* A cutoff read from last_seen instead of the watermark.
get_user_last_seen_as_cutoff(db, uid) ==
    IF uid \in DOMAIN db.users THEN db.users[uid].last_seen ELSE NoTime

get_user_ingested_until(db, uid) ==
    IF uid \in DOMAIN db.users THEN db.users[uid].ingested_until ELSE NoTime

get_user_last_checked(db, uid) ==
    IF uid \in DOMAIN db.users THEN db.users[uid].last_checked ELSE NoTime

\* An update that moves last_seen along with last_checked.
update_user_last_checked_and_seen(db, uid, checked_at) ==
    IF uid \in DOMAIN db.users
    THEN [db EXCEPT !.users[uid].last_checked = checked_at,
                    !.users[uid].last_seen = checked_at]
    ELSE db

update_user_last_checked(db, uid, checked_at) ==
    IF uid \in DOMAIN db.users
    THEN [db EXCEPT !.users[uid].last_checked = checked_at]
    ELSE db

get_participants_for_game(db, game_id) ==
    {u \in Uids : <<game_id, u>> \in db.stats}

get_latest_nickname_for_uid(db, uid) == db.users[uid].nickname

\* A store whose incomplete flag is never set.
mark_game_incomplete_lost(db, game_id) == db

mark_game_incomplete(db, game_id) ==
    IF game_id \in DOMAIN db.matches
    THEN [db EXCEPT !.matches[game_id].incomplete = TRUE]
    ELSE db

\* Every upsert_* / mark_* of SQLiteStore ends with self.connection.commit().
CommitAfterWrite(durable, db) == db

\* "with self.store.transaction():" left by an exception rolls the connection
\* back to what was last committed.
Rollback(durable) == durable


(* ----------------- SQLiteStore: tables missing from db.py -------------- *)
\* deleted_matches (tombstones), the prune floor and match_refetch_status are
\* used by ingest.py and tools_cli.py; their store methods are not in db.py.

is_game_deleted(db, game_id) == game_id \in db.deleted_games

list_deleted_games(db, ids) == ids \cap db.deleted_games

get_prune_before(db) == db.prune_before

clear_game_incomplete(db, game_id) ==
    IF game_id \in DOMAIN db.matches
    THEN [db EXCEPT !.matches[game_id].incomplete = FALSE]
    ELSE db

get_refetch_attempts(db, game_id) ==
    IF game_id \in DOMAIN db.refetch THEN db.refetch[game_id].attempts ELSE 0

upsert_refetch_status(db, game_id, status, attempts, last_refetch_at, next_refetch_at, error) ==
    [db EXCEPT !.refetch =
        [g \in DOMAIN db.refetch \cup {game_id} |->
            IF g = game_id
            THEN [status |-> status, attempts |-> attempts,
                  last_refetch_at |-> last_refetch_at,
                  next_refetch_at |-> next_refetch_at, last_error |-> error]
            ELSE db.refetch[g]]]

clear_refetch_status(db, game_id) ==
    [db EXCEPT !.refetch = [g \in DOMAIN db.refetch \ {game_id} |-> db.refetch[g]]]

\* sqlite-prune --before cutoff --apply: matches that started before the cutoff
\* are deleted (their participations cascade) and tombstoned; the prune floor
\* only moves forward.
prune_matches_before(db, cutoff) ==
    LET gone == {g \in DOMAIN db.matches :
                    db.matches[g].start_dtm # NoTime
                    /\ db.matches[g].start_dtm < cutoff}
    IN [db EXCEPT
          !.matches = [g \in DOMAIN db.matches \ gone |-> db.matches[g]],
          !.stats = {s \in db.stats : s[1] \notin gone},
          !.deleted_games = @ \cup gone,
          !.prune_before = IF @ # NoTime /\ @ > cutoff THEN @ ELSE cutoff]

(* -------------------------- IngestionManager --------------------------- *)

\* What one _fetch_uid_with_retries(nickname) can meet at the remote resolver:
\* a uid after calls-1 transient failures, 'handle not found' at the calls-th
\* call, or max_nickname_attempts transient failures.  A nickname remembered as
\* not found is answered without any call.
ResolverOutcomes(m, c, nickname) ==
    IF nickname \in m.not_found
    THEN {[uid |-> NoUid, calls |-> 0, notfound |-> FALSE]}
    ELSE {[uid |-> u, calls |-> k, notfound |-> FALSE] :
            u \in Uids, k \in 1..c.max_nickname_attempts}
         \cup {[uid |-> NoUid, calls |-> k, notfound |-> TRUE] :
            k \in 1..c.max_nickname_attempts}
         \cup {[uid |-> NoUid, calls |-> c.max_nickname_attempts,
                notfound |-> FALSE]}

\* A resolver front that does not remember a 'not found' answer.
fetch_uid_forgetting_not_found(m, nickname, r) ==
    [mgr |-> m, uid |-> r.uid, lookup |-> r.calls > 0]

\* _fetch_uid_with_retries: the resolved uid (NoUid for None) and the manager
\* with the not-found memo updated.
fetch_uid_with_retries(m, nickname, r) ==
    [mgr |-> IF r.notfound
             THEN [m EXCEPT !.not_found = @ \cup {nickname}] ELSE m,
     uid |-> r.uid,
     lookup |-> r.calls > 0]

\* A cache that answers with any row of the nickname, not the latest.
CachedUidsAnyRow(db, c, nickname) ==
    IF c.prefer_nickname_fetch THEN {}
    ELSE {u \in DOMAIN db.users : db.users[u].nickname = nickname}

\* A cache that is never consulted.
CachedUidsIgnored(db, c, nickname) == {}

\* _resolve_uid without the remote part: the cached uids it may return
\* ({} when the cache is not consulted or holds nothing).
CachedUids(db, c, nickname) ==
    IF c.prefer_nickname_fetch THEN {} ELSE NicknameCandidates(db, nickname)

\* A resolution that always asks the remote resolver.
resolve_uid_remote_only(m, nickname, start_dtm, cached, r) ==
    IF nickname = "" THEN [mgr |-> m, uid |-> NoUid, lookup |-> FALSE]
    ELSE fetch_uid_with_retries(m, nickname, r)

\* _resolve_uid(nickname, start_dtm): start_dtm is accepted and not used.
\* cached is the row the store returned (NoUid: none), r the resolver's answer.
resolve_uid(m, nickname, start_dtm, cached, r) ==
    IF nickname = "" THEN [mgr |-> m, uid |-> NoUid, lookup |-> FALSE]
    ELSE IF cached # NoUid THEN [mgr |-> m, uid |-> cached, lookup |-> FALSE]
    ELSE fetch_uid_with_retries(m, nickname, r)

record_seed_uid_missing_uid(m, seed_nickname, uid) ==
    IF seed_nickname = "" \/ uid = NoUid THEN m
    ELSE [m EXCEPT !.uid_missing[seed_nickname] = @ \cup {uid}]

is_seed_uid_missing_uid(m, seed_nickname, uid) ==
    seed_nickname # "" /\ uid # NoUid /\ uid \in m.uid_missing[seed_nickname]

\* _next_seed_uid_resolve_attempt.  The counter is only ever compared with
\* max_seed_uid_resolve_attempts, so it is kept saturated at that limit.
next_seed_uid_resolve_attempt(m, c, seed_nickname) ==
    [m EXCEPT !.resolve_attempts[seed_nickname] =
        Min(@ + 1, c.max_seed_uid_resolve_attempts)]

\* A recovery preparation that forgets the limit on failed uid variants.
prepare_without_variant_limit(m, c, seed_nickname, uid) ==
    LET m1 == record_seed_uid_missing_uid(m, seed_nickname, uid)
        m2 == next_seed_uid_resolve_attempt(m1, c, seed_nickname)
    IN IF m2.resolve_attempts[seed_nickname] >= c.max_seed_uid_resolve_attempts
       THEN [mgr |-> m2, stop |-> TRUE]
       ELSE [mgr |-> m2, stop |-> FALSE]

\* _prepare_seed_recovery_after_uid_missing: stop is the stop_reason being set.
prepare_seed_recovery_after_uid_missing(m, c, seed_nickname, uid) ==
    LET m1 == record_seed_uid_missing_uid(m, seed_nickname, uid)
        m2 == next_seed_uid_resolve_attempt(m1, c, seed_nickname)
    IN IF Cardinality(m1.uid_missing[seed_nickname]) >= c.max_failed_uids_per_seed
       THEN [mgr |-> m1, stop |-> TRUE]
       ELSE IF m2.resolve_attempts[seed_nickname] >= c.max_seed_uid_resolve_attempts
       THEN [mgr |-> m2, stop |-> TRUE]
       ELSE [mgr |-> m2, stop |-> FALSE]

\* A recovery that accepts whatever uid the resolver returns.
try_recover_accepting_any_uid(m, c, uid, seed_nickname, r) ==
    IF seed_nickname = "" THEN [mgr |-> m, uid |-> NoUid, lookup |-> FALSE]
    ELSE
      LET prep == prepare_seed_recovery_after_uid_missing(m, c, seed_nickname, uid)
          res == fetch_uid_with_retries(prep.mgr, seed_nickname, r)
      IN IF prep.stop THEN [mgr |-> prep.mgr, uid |-> NoUid, lookup |-> FALSE]
         ELSE [mgr |-> res.mgr, uid |-> res.uid, lookup |-> res.lookup]

\* A recovery that does not look at the uids already rejected for the seed.
try_recover_ignoring_failed_uids(m, c, uid, seed_nickname, r) ==
    IF seed_nickname = "" THEN [mgr |-> m, uid |-> NoUid, lookup |-> FALSE]
    ELSE
      LET prep == prepare_seed_recovery_after_uid_missing(m, c, seed_nickname, uid)
          res == fetch_uid_with_retries(prep.mgr, seed_nickname, r)
      IN IF prep.stop THEN [mgr |-> prep.mgr, uid |-> NoUid, lookup |-> FALSE]
         ELSE IF res.uid = NoUid \/ res.uid = uid
         THEN [mgr |-> res.mgr, uid |-> NoUid, lookup |-> res.lookup]
         ELSE [mgr |-> res.mgr, uid |-> res.uid, lookup |-> res.lookup]

\* _try_recover_seed_uid: the recovered uid, NoUid when the seed is given up.
try_recover_seed_uid(m, c, uid, seed_nickname, r) ==
    IF seed_nickname = "" THEN [mgr |-> m, uid |-> NoUid, lookup |-> FALSE]
    ELSE
      LET prep == prepare_seed_recovery_after_uid_missing(m, c, seed_nickname, uid)
          res == fetch_uid_with_retries(prep.mgr, seed_nickname, r)
      IN IF prep.stop THEN [mgr |-> prep.mgr, uid |-> NoUid, lookup |-> FALSE]
         ELSE IF res.uid = NoUid \/ res.uid = uid
                 \/ is_seed_uid_missing_uid(res.mgr, seed_nickname, res.uid)
         THEN [mgr |-> res.mgr, uid |-> NoUid, lookup |-> res.lookup]
         ELSE [mgr |-> res.mgr, uid |-> res.uid, lookup |-> res.lookup]

\* _needs_uid_recheck: a user never checked is not rechecked.
needs_uid_recheck(db, t, uid) ==
    /\ get_user_last_checked(db, uid) # NoTime
    /\ t - get_user_last_checked(db, uid) > uid_recheck_interval

\* _mark_uid_checked: last_checked := now, committed by the store.
mark_uid_checked(db, t, uid) == update_user_last_checked(db, uid, t)

\* How the remote client can answer fetch_user_games.
UserGamesOutcomes == {"ok", "e401", "e404", "http404", "other"}

is_user_games_uid_missing_error(o) == o = "e401"
is_user_games_no_games_error(o) == o = "e404"
is_transport_not_found_error(o) == o = "http404"
Rejected(o) == is_user_games_uid_missing_error(o) \/ is_user_games_no_games_error(o)

\* _validate_uid(uid, nickname) under probe answer o and resolver answer r:
\* uid is the validated uid; raised names the exception re-raised ("" none).
validate_uid(db, m, c, t, uid, nickname, o, r) ==
    LET rec == try_recover_seed_uid(m, c, uid, nickname, r)
        none == [db |-> db, mgr |-> m, uid |-> uid, raised |-> "",
                 probed |-> FALSE, rejected |-> FALSE, lookup |-> FALSE]
    IN IF ~needs_uid_recheck(db, t, uid) THEN none
       ELSE IF o = "ok"
       THEN [none EXCEPT !.db = mark_uid_checked(db, t, uid), !.probed = TRUE]
       ELSE IF is_user_games_uid_missing_error(o) /\ nickname # ""
       THEN IF rec.uid # NoUid
            THEN [db |-> mark_uid_checked(db, t, rec.uid), mgr |-> rec.mgr,
                  uid |-> rec.uid, raised |-> "", probed |-> TRUE,
                  rejected |-> TRUE, lookup |-> rec.lookup]
            ELSE [db |-> db, mgr |-> rec.mgr, uid |-> NoUid, raised |-> o,
                  probed |-> TRUE, rejected |-> TRUE, lookup |-> rec.lookup]
       ELSE IF is_user_games_no_games_error(o)
       THEN IF rec.uid # NoUid
            THEN [db |-> mark_uid_checked(db, t, rec.uid), mgr |-> rec.mgr,
                  uid |-> rec.uid, raised |-> "", probed |-> TRUE,
                  rejected |-> TRUE, lookup |-> rec.lookup]
            ELSE [db |-> mark_uid_checked(db, t, uid), mgr |-> rec.mgr,
                  uid |-> uid, raised |-> "", probed |-> TRUE,
                  rejected |-> TRUE, lookup |-> rec.lookup]
       ELSE [none EXCEPT !.uid = NoUid, !.raised = o, !.probed = TRUE,
                         !.rejected = Rejected(o)]


(* ------------------------------ state ---------------------------------- *)

EmptyStore ==
    [users |-> <<>>, matches |-> <<>>, stats |-> {},
     deleted_games |-> {}, prune_before |-> NoTime, refetch |-> <<>>]

\* IngestionManager.__init__: the in-memory fields of a new manager.
NewManager(t) ==
    [seen_games |-> {}, not_found |-> {},
     uid_missing |-> [n \in Nicknames |-> {}],
     resolve_attempts |-> [n \in Nicknames |-> 0],
     ingest_started_at |-> t]

\* The counters refetch_incomplete_games returns.
NoStats ==
    [total |-> 0, cleared |-> 0, not_found |-> 0, empty |-> 0,
     still_incomplete |-> 0]

IdleCall ==
    [pc |-> "idle", op |-> "none", uid |-> NoUid, seed |-> "", token |-> 0,
     cutoff |-> NoTime, prune_cutoff |-> NoTime, games |-> <<>>, idx |-> 0,
     processed |-> 0, discovered |-> {}, stop |-> FALSE, deleted_ids |-> {},
     game |-> 0, force |-> FALSE, roster |-> <<>>, attempt |-> 0,
     incomplete |-> FALSE, pcount |-> 0, aborted |-> FALSE,
     caller |-> "", queue |-> <<>>, seen_nicknames |-> {}, depth |-> 0,
     current_depth |-> 0, ids |-> <<>>, rest |-> <<>>, stats |-> NoStats]

\* No payload: the game argument of upsert_user before any call.
NoPayload ==
    [nickname |-> "", startDtm |-> NoTime, mmrAfter |-> 0, uid |-> NoUid,
     gameId |-> 0]

\* What was seen of the last participant handled: the cached uid its nickname
\* had (NoUid: none), the uid it was persisted under (NoUid: not persisted),
\* whether the remote resolver was called for it, whether its uid was probed,
\* and the record's own startDtm.
NoPart ==
    [nickname |-> "", cached |-> NoUid, uid |-> NoUid, lookup |-> FALSE,
     probed |-> FALSE, rejected |-> FALSE, startDtm |-> NoTime,
     cached_seen |-> NoTime, probe |-> ""]

\* Observations of one ingest_user / refetch call; reset when a call starts
\* (cause: the failure that left the call as an exception; unreported: an
\* exception left the call, or its traversal was aborted, with no _report
\* call made for it; given, started, unresolved, given_up: the seeds
\* ingest_from_seeds was given, those ingest_user was called for, those whose
\* nickname did not resolve and those whose traversal was aborted;
\* refetched: the answers fetch_game_result gave refetch_incomplete_games, as
\* <<game id, answer>>; counted: the counter each of its matches went to, as
\* <<game id, counter>>)
\* (upserted: the records upserted since the traversal last began at the
\* first page)
\* (left, the number of calls still to be started, is kept)
\* (events: the <<uid, startDtm>> of every payload given to upsert_user;
\* payload, mark_ingested: the arguments of the last upsert_user call, whose
\* store before the call is start_store)
\* (levels: <<nickname, current_depth>> of every ingest_user call made by
\* ingest_from_seeds; found: <<seed nickname, nickname>> for every nickname an
\* ingest_user call returned; restarted: ingest_user was called for a nickname
\* it had been called for before in the same ingest_from_seeds call)
\* (persisted: <<game id, nickname, uid>> of every participant record given to
\* upsert_from_game_payload)
\* (resolution: the last _fetch_uid_with_retries call made on its own: its
\* nickname, what the resolver would answer to each call, the calls made, the
\* uid returned, whether the loop ended on 'not found' and whether the
\* nickname was in the not-found memo before the call)
\* (resolved: what the remote resolver last returned, NoUid for no uid)
\* (fetch_failed: the matches whose fetch_game_result raised in an ingest_user
\* call of this manager; kept from call to call).
NewObs ==
    [rejected_calls |-> 0, loop_rejected_calls |-> 0,
     rejected_uids |-> {}, loop_rejected |-> {},
     recalled |-> FALSE, loop_recalled |-> FALSE,
     lookups |-> {}, skipped |-> {}, upserted |-> {}, fetched |-> {},
     failed |-> {}, passed |-> {}, after_skip |-> FALSE, aborted |-> 0,
     part |-> NoPart, stopped |-> FALSE, after_stop |-> FALSE,
     start_store |-> EmptyStore, rerun |-> FALSE, last_done |-> NoUid,
     left |-> 0, probe |-> "", answers |-> {}, arg |-> NoUid, uid |-> NoUid,
     answered |-> {}, relooked |-> FALSE, cause |-> "", unreported |-> FALSE,
     given |-> <<>>, started |-> {}, unresolved |-> {}, given_up |-> {},
     refetched |-> {}, counted |-> {},
     events |-> {}, payload |-> NoPayload, mark_ingested |-> FALSE,
     levels |-> {}, found |-> {}, restarted |-> FALSE, persisted |-> {},
     resolution |-> [nickname |-> "", answers |-> <<>>, calls |-> 0,
                     uid |-> NoUid, notfound |-> FALSE, memo |-> FALSE],
     resolved |-> NoUid, fetch_failed |-> {}]

\* The observations a new call starts with: the calls still to be started, and
\* what is remembered of the remote resolver for the manager's lifetime, are kept.
StartObs(ob) ==
    [NewObs EXCEPT !.left = ob.left - 1, !.answered = ob.answered,
                   !.relooked = ob.relooked,
                   !.fetch_failed = ob.fetch_failed]

\* The observations after _fetch_uid_with_retries(nickname) met the resolver's
\* answer r: answered holds the nicknames the resolver has answered 'not
\* found' for this manager, relooked tells that the resolver was called for
\* such a nickname again.
ObserveResolver(ob, nickname, r, called) ==
    [ob EXCEPT
       !.resolved = IF called THEN r.uid ELSE @,
       !.relooked = @ \/ (called /\ nickname \in ob.answered),
       !.answered = IF called /\ r.notfound THEN @ \cup {nickname} ELSE @]

\* A participant record of fetch_game_result: its nickname, its startDtm
\* (NoTime: the field is absent) and whether a later table write of
\* upsert_from_game_payload raises ValueError (a malformed slot key); fatal
\* tells that the record lacks a required field of the match (seasonId), so
\* that upsert_match raises sqlite3.IntegrityError after upsert_user.
Entry(n, t, b) == [nickname |-> n, startDtm |-> t, bad |-> b, fatal |-> FALSE]

\* The match list the remote API serves for the seed player, as pages.
PageAt(up, token) ==
    IF token < Len(up.pages) THEN up.pages[token + 1] ELSE <<>>

\* A pagination that never follows the continuation token.
NextTokenIgnored(up, token) == 0

NextToken(up, token) ==
    IF token + 1 < Len(up.pages) THEN token + 1 ELSE 0

(* ----------------------------- ingest_user ----------------------------- *)

\* The cutoff and the prune floor read before the pagination loop.
BeginPagination(c, db, cf, uid) ==
    [c EXCEPT !.pc = "fetch", !.uid = uid, !.token = 0,
              !.cutoff = IF cf.only_newer_games
                         THEN get_user_ingested_until(db, uid) ELSE NoTime,
              !.prune_cutoff = get_prune_before(db)]

\* ingest_user(uid, seed_nickname=seed): with a seed nickname the uid is
\* validated first.  c holds the locals of the caller.
EnterIngestUser(c, db, cf, uid, seed) ==
    IF seed # ""
    THEN [c EXCEPT !.pc = "validate", !.op = "ingest",
                   !.uid = uid, !.seed = seed]
    ELSE BeginPagination([c EXCEPT !.op = "ingest", !.seed = seed],
                         db, cf, uid)

StartIngestUser(uid, seed) ==
    /\ call.pc = "idle"
    /\ call' = EnterIngestUser(IdleCall, store, cfg, uid, seed)
    /\ obs.left > 0
    /\ obs' = [StartObs(obs) EXCEPT !.start_store = store,
                                    !.rerun = (obs.last_done = uid),
                                    !.arg = uid, !.uid = uid]
    /\ UNCHANGED <<store, committed, mgr, cfg, now, upstream>>

NoAnswer == [uid |-> NoUid, calls |-> 0, notfound |-> FALSE]

\* The observations after a fetch_user_games(uid) call answered o.
ObserveFetch(ob, uid, o, in_loop) ==
    [ob EXCEPT
       !.answers = @ \cup {o},
       !.recalled = @ \/ uid \in ob.rejected_uids,
       !.loop_recalled = @ \/ (in_loop /\ uid \in ob.loop_rejected),
       !.rejected_calls = IF Rejected(o) THEN @ + 1 ELSE @,
       !.loop_rejected_calls = IF Rejected(o) /\ in_loop THEN @ + 1 ELSE @,
       !.rejected_uids = IF Rejected(o) THEN @ \cup {uid} ELSE @,
       !.loop_rejected = IF Rejected(o) /\ in_loop THEN @ \cup {uid} ELSE @]

\* The validation of the seed uid at the head of ingest_user: an exception of
\* _validate_uid ends the call (a transport 404 is re-raised).
ValidateSeed ==
    /\ call.pc = "validate"
    /\ \E o \in (IF needs_uid_recheck(store, now, call.uid)
                 THEN UserGamesOutcomes ELSE {"ok"}) :
       \E r \in (IF needs_uid_recheck(store, now, call.uid) /\ Rejected(o)
                 THEN ResolverOutcomes(mgr, cfg, call.seed) ELSE {NoAnswer}) :
         LET v == validate_uid(store, mgr, cfg, now, call.uid, call.seed, o, r)
             ob == IF v.probed THEN ObserveFetch(obs, call.uid, o, FALSE) ELSE obs
         IN /\ store' = v.db
            /\ committed' = CommitAfterWrite(committed, v.db)
            /\ mgr' = v.mgr
            /\ obs' = ObserveResolver(
                          [ob EXCEPT !.lookups =
                              IF v.lookup THEN @ \cup {call.seed} ELSE @,
                                     !.probe = IF v.probed THEN o ELSE @,
                                     !.uid = IF v.uid # NoUid THEN v.uid ELSE @,
                                     !.cause =
                                        IF is_transport_not_found_error(v.raised)
                                        THEN v.raised ELSE @],
                          call.seed, r, v.lookup)
            /\ call' = IF v.raised = "" /\ v.uid # NoUid
                       THEN BeginPagination(call, v.db, cfg, v.uid)
                       ELSE IF is_transport_not_found_error(v.raised)
                       THEN [call EXCEPT !.pc = "raised"]
                       ELSE [call EXCEPT !.pc = "done", !.aborted = TRUE]
    /\ UNCHANGED <<cfg, now, upstream>>

\* After the for loop over a page: stop, the per-user limit, or the next page.
AfterPage(c, cf, up) ==
    IF c.stop THEN [c EXCEPT !.pc = "done"]
    ELSE IF cf.max_games_per_user # 0 /\ c.processed >= cf.max_games_per_user
    THEN [c EXCEPT !.pc = "done"]
    ELSE IF NextToken(up, c.token) = 0 THEN [c EXCEPT !.pc = "done"]
    ELSE [c EXCEPT !.pc = "fetch", !.token = NextToken(up, c.token)]

\* One fetch_user_games call of the pagination loop.
FetchPage ==
    /\ call.pc = "fetch"
    /\ call.op = "ingest"
    /\ \E o \in UserGamesOutcomes :
       \E r \in (IF Rejected(o) /\ call.seed # ""
                 THEN ResolverOutcomes(mgr, cfg, call.seed) ELSE {NoAnswer}) :
         LET rec == try_recover_seed_uid(mgr, cfg, call.uid, call.seed, r)
             ob == ObserveFetch(obs, call.uid, o, TRUE)
             db1 == mark_uid_checked(store, now, call.uid)
             page == PageAt(upstream, call.token)
             c1 == [call EXCEPT !.pc = "records", !.games = page, !.idx = 1,
                                !.deleted_ids =
                                    list_deleted_games(store, Range(page))]
         IN IF o = "ok"
            THEN /\ store' = db1
                 /\ committed' = CommitAfterWrite(committed, db1)
                 /\ mgr' = mgr
                 /\ obs' = [ob EXCEPT !.after_stop = @ \/ ob.stopped]
                 /\ call' = IF Len(page) = 0 THEN AfterPage(c1, cfg, upstream)
                            ELSE c1
            ELSE IF Rejected(o)
            THEN /\ UNCHANGED <<store, committed>>
                 /\ mgr' = rec.mgr
                 /\ obs' = ObserveResolver(
                               [ob EXCEPT !.lookups =
                                   IF rec.lookup THEN @ \cup {call.seed} ELSE @,
                                          !.uid = IF rec.uid # NoUid THEN rec.uid
                                                  ELSE @,
                                          !.upserted = IF rec.uid # NoUid THEN {}
                                                       ELSE @,
                                          !.unreported =
                                              @ \/ (call.seed = "" /\
                                                    is_user_games_uid_missing_error(o))],
                               call.seed, r, rec.lookup)
                 /\ call' = IF rec.uid # NoUid
                            THEN [call EXCEPT !.uid = rec.uid, !.token = 0]
                            ELSE [call EXCEPT !.pc = "done", !.aborted = TRUE]
            ELSE /\ UNCHANGED <<store, committed, mgr>>
                 /\ obs' = [ob EXCEPT !.cause =
                               IF is_transport_not_found_error(o) THEN o ELSE @]
                 /\ call' = IF is_transport_not_found_error(o)
                            THEN [call EXCEPT !.pc = "raised"]
                            ELSE [call EXCEPT !.pc = "done", !.aborted = TRUE]
    /\ UNCHANGED <<cfg, now, upstream>>


\* A prune floor that is honoured in incremental mode only.
StopAtPruneWhenIncremental(c, start) ==
    /\ c.cutoff # NoTime
    /\ c.prune_cutoff # NoTime /\ start # NoTime /\ start <= c.prune_cutoff

\* The early-stop tests ingest_user makes on a record before anything else.
StopAtPrune(c, start) ==
    c.prune_cutoff # NoTime /\ start # NoTime /\ start <= c.prune_cutoff

\* A watermark test that lets a record at the watermark through.
StopBeforeCutoff(c, start) ==
    c.cutoff # NoTime /\ start # NoTime /\ start < c.cutoff

StopAtCutoff(c, start) ==
    c.cutoff # NoTime /\ start # NoTime /\ start <= c.cutoff

\* A traversal that does not look at the tombstones of the page.
SkipNothing(c, game_id) == FALSE

\* "if game_id in deleted_ids: continue"
SkipDeleted(c, game_id) == game_id \in c.deleted_ids

\* The listing record of match g as ingest_user upserts it (game["uid"] = uid).
OwnerPayload(up, g, uid) ==
    [gameId |-> g, uid |-> uid, nickname |-> up.owner,
     startDtm |-> up.start[g], mmrAfter |-> up.mmr]

\* The end of a record's loop body without the per-user limit.
FinishRecordUnlimited(c, cf, up) ==
    LET c1 == [c EXCEPT !.processed = @ + 1, !.idx = @ + 1, !.game = 0,
                        !.roster = <<>>, !.attempt = 0,
                        !.incomplete = FALSE, !.pcount = 0]
    IN IF c1.idx > Len(c1.games)
       THEN IF c1.stop \/ NextToken(up, c1.token) = 0
            THEN [c1 EXCEPT !.pc = "done"]
            ELSE [c1 EXCEPT !.pc = "fetch", !.token = NextToken(up, c1.token)]
       ELSE [c1 EXCEPT !.pc = "records"]

\* The end of a record's loop body: processed += 1, then the per-user limit.
FinishRecord(c, cf, up) ==
    LET c1 == [c EXCEPT !.processed = @ + 1, !.idx = @ + 1, !.game = 0,
                        !.roster = <<>>, !.attempt = 0,
                        !.incomplete = FALSE, !.pcount = 0]
    IN IF cf.max_games_per_user # 0 /\ c1.processed >= cf.max_games_per_user
       THEN AfterPage(c1, cf, up)
       ELSE IF c1.idx > Len(c1.games) THEN AfterPage(c1, cf, up)
       ELSE [c1 EXCEPT !.pc = "records"]

\* How the remote client can answer fetch_game_result.
GameResultOutcomes == {"ok", "e404", "http404", "other"}

\* A fast path taken as soon as one participant is cached.
UseCachedParticipantsWhenAny(db, game_id, already_known, force_fetch) ==
    /\ already_known
    /\ ~force_fetch
    /\ Cardinality(get_participants_for_game(db, game_id)) >= 1

\* The cache-hit fast path of _ingest_game_participants_core.
UseCachedParticipants(db, game_id, already_known, force_fetch) ==
    /\ already_known
    /\ ~force_fetch
    /\ Cardinality(get_participants_for_game(db, game_id)) > 1

\* The early returns of _ingest_game_participants_core.
CoreReturnsEarly(db, m, game_id) ==
    game_id \in m.seen_games \/ is_game_deleted(db, game_id)

\* 2 ** n
RECURSIVE Pow2(_)
Pow2(n) == IF n <= 0 THEN 1 ELSE 2 * Pow2(n - 1)

\* A delay that doubles without a cap.
refetch_delay_uncapped(attempts) == base_days * Pow2(Max(attempts - 1, 0))

\* _refetch_delay(attempts), in days (the unit of the clock).
refetch_delay(attempts) ==
    Min(base_days * Pow2(Max(attempts - 1, 0)), max_days)

\* _record_refetch_failure(game_id, status=status, error=error) at time t.
record_refetch_failure(db, t, game_id, status, error) ==
    LET attempts == get_refetch_attempts(db, game_id) + 1
    IN upsert_refetch_status(db, game_id, status, attempts, t,
                             t + refetch_delay(attempts), error)

\* A classification that sees every 404 of fetch_game_result as 'match gone'.
any_not_found_is_payload_not_found(o) == o \in {"e404", "http404"}

\* A classification that never sees a payload 404.
payload_not_found_unseen(o) == FALSE

\* _is_game_result_payload_not_found_error
is_game_result_payload_not_found_error(o) == o = "e404"

\* A tally that counts a match with no participants as cleared.
CounterTreatingEmptyAsCleared(incomplete, participant_count) ==
    IF ~incomplete THEN "cleared" ELSE "still_incomplete"

\* The counter of refetch_incomplete_games a match goes to once
\* _ingest_game_participants_core returned.
RefetchCounter(incomplete, participant_count) ==
    IF participant_count = 0 THEN "empty"
    ELSE IF ~incomplete THEN "cleared"
    ELSE "still_incomplete"

\* A tail that leaves the schedule entry of a cleared match in place.
RefetchTailKeepingEntry(db, t, game_id, incomplete, participant_count) ==
    IF RefetchCounter(incomplete, participant_count) = "empty"
    THEN record_refetch_failure(db, t, game_id, "error", "empty_participants")
    ELSE IF RefetchCounter(incomplete, participant_count) = "cleared"
    THEN clear_game_incomplete(db, game_id)
    ELSE record_refetch_failure(db, t, game_id, "error",
                                "incomplete_participants")

\* The tail of refetch_incomplete_games for one match: the schedule entry and
\* the incomplete flag after _ingest_game_participants_core returned.
RefetchTail(db, t, game_id, incomplete, participant_count) ==
    IF RefetchCounter(incomplete, participant_count) = "empty"
    THEN record_refetch_failure(db, t, game_id, "error", "empty_participants")
    ELSE IF RefetchCounter(incomplete, participant_count) = "cleared"
    THEN clear_refetch_status(clear_game_incomplete(db, game_id), game_id)
    ELSE record_refetch_failure(db, t, game_id, "error",
                                "incomplete_participants")

\* refetch_incomplete_games after one match was counted: the next id of
\* game_ids, or the return of the counters.
RefetchEnd(c, counter) ==
    [c EXCEPT !.stats[counter] = @ + 1,
              !.pc = IF c.rest = <<>> THEN "done" ELSE "next"]

\* The end of _ingest_game_participants_core after the participant loop, and
\* what its caller does with the result.
FinishPass(c, db, cf, up, t) ==
    LET db1 == IF c.incomplete THEN mark_game_incomplete(db, c.game) ELSE db
    IN IF c.op = "refetch"
       THEN [db |-> RefetchTail(db1, t, c.game, c.incomplete, c.pcount),
             call |-> RefetchEnd(c, RefetchCounter(c.incomplete, c.pcount))]
       ELSE [db |-> db1, call |-> FinishRecord(c, cf, up)]

\* One record of the current page: the loop body of ingest_user up to the
\* participant loop (fo is the answer of fetch_game_result when it is called).
ProcessRecord ==
    /\ call.pc = "records"
    /\ LET g == call.games[call.idx]
           start == upstream.start[g]
           known == has_game(store, g)
           db1 == upsert_from_game_payload(
                      store, OwnerPayload(upstream, g, call.uid), TRUE)
           c1 == [call EXCEPT !.game = g]
           ob1 == [obs EXCEPT !.upserted = @ \cup {g},
                              !.after_skip = @ \/ obs.skipped # {}]
           fetches == /\ cfg.fetch_game_details
                      /\ ~CoreReturnsEarly(db1, mgr, g)
                      /\ ~UseCachedParticipants(db1, g, known, FALSE)
       IN IF StopAtPrune(call, start) \/ StopAtCutoff(call, start)
          THEN /\ call' = AfterPage([call EXCEPT !.stop = TRUE], cfg, upstream)
               /\ obs' = [obs EXCEPT !.stopped = TRUE]
               /\ UNCHANGED <<store, committed, mgr>>
          ELSE IF SkipDeleted(call, g)
          THEN /\ call' = IF call.idx + 1 > Len(call.games)
                          THEN AfterPage([call EXCEPT !.idx = @ + 1], cfg, upstream)
                          ELSE [call EXCEPT !.idx = @ + 1]
               /\ obs' = [obs EXCEPT !.skipped = @ \cup {g}]
               /\ UNCHANGED <<store, committed, mgr>>
          ELSE \E fo \in (IF fetches THEN GameResultOutcomes ELSE {"ok"}) :
               /\ committed' = CommitAfterWrite(committed, db1)
               /\ store' = IF fetches /\ fo # "ok" THEN Rollback(committed')
                           ELSE db1
               /\ IF ~cfg.fetch_game_details \/ CoreReturnsEarly(db1, mgr, g)
                  THEN /\ mgr' = mgr
                       /\ obs' = ob1
                       /\ call' = FinishRecord(c1, cfg, upstream)
                  ELSE IF UseCachedParticipants(db1, g, known, FALSE)
                  THEN /\ mgr' = [mgr EXCEPT !.seen_games = @ \cup {g}]
                       /\ obs' = ob1
                       /\ call' = FinishRecord(
                            [c1 EXCEPT !.discovered = @ \cup
                                {get_latest_nickname_for_uid(db1, u) :
                                    u \in get_participants_for_game(db1, g)}],
                            cfg, upstream)
                  ELSE IF fo # "ok"
                  THEN /\ mgr' = [mgr EXCEPT !.seen_games = @ \cup {g}]
                       /\ obs' = [ob1 EXCEPT !.aborted = g, !.cause = fo,
                                              !.unreported = TRUE,
                                              !.fetch_failed = @ \cup {g}]
                       /\ call' = [c1 EXCEPT !.pc = "raised"]
                  ELSE /\ mgr' = [mgr EXCEPT !.seen_games = @ \cup {g}]
                       /\ obs' = [ob1 EXCEPT !.fetched = @ \cup {g}]
                       /\ call' = IF Len(upstream.roster[g]) = 0
                                  THEN FinishPass(c1, db1, cfg, upstream, now).call
                                  ELSE [c1 EXCEPT !.pc = "participants",
                                                  !.roster = upstream.roster[g],
                                                  !.pcount = Len(upstream.roster[g]),
                                                  !.attempt = 1]
    /\ UNCHANGED <<cfg, now, upstream>>


\* What ParticipantAttempt records about the participant it handled.
ObservePart(ob, nick, entry, cu, seen, res, v, upserts, o) ==
    [ob EXCEPT
       !.lookups = IF res.lookup \/ (res.uid # NoUid /\ v.lookup)
                   THEN @ \cup {nick} ELSE @,
       !.persisted = IF upserts THEN @ \cup {<<call.game, nick, v.uid>>}
                     ELSE @,
       !.part = [nickname |-> nick, cached |-> cu,
                 uid |-> IF upserts THEN v.uid ELSE NoUid,
                 lookup |-> res.lookup \/ (res.uid # NoUid /\ v.lookup),
                 probed |-> res.uid # NoUid /\ v.probed,
                 rejected |-> res.uid # NoUid /\ v.rejected,
                 startDtm |-> entry.startDtm,
                 cached_seen |-> seen,
                 probe |-> IF res.uid # NoUid /\ v.probed THEN o ELSE ""]]

\* The state after one pass of the retry loop: db1 and m1 are the store and
\* the manager the pass leaves, success and broke how the pass ended.
AfterAttempt(db1, m1, ob1, success, broke) ==
    LET nick == call.roster[1].nickname
        last == call.attempt >= cfg.participant_retry_attempts
        c1 == [call EXCEPT
                 !.roster = Tail(@), !.attempt = 1,
                 !.incomplete = @ \/ ~success,
                 !.discovered = IF success /\ call.op = "ingest"
                                THEN @ \cup {nick} ELSE @]
    IN IF ~success /\ ~broke /\ ~last
       THEN /\ store' = db1
            /\ mgr' = m1
            /\ obs' = ob1
            /\ call' = [call EXCEPT !.attempt = @ + 1]
       ELSE IF Len(c1.roster) > 0
       THEN /\ store' = db1
            /\ mgr' = m1
            /\ obs' = [ob1 EXCEPT !.failed =
                          IF success THEN @ ELSE @ \cup {call.game}]
            /\ call' = c1
       ELSE \E fin \in {FinishPass(c1, db1, cfg, upstream, now)} :
            /\ store' = fin.db
            /\ mgr' = m1
            /\ obs' = [ob1 EXCEPT
                          !.failed = IF c1.incomplete
                                     THEN @ \cup {call.game} ELSE @,
                          !.passed = @ \cup {call.game},
                          !.counted =
                             IF call.op = "refetch"
                             THEN @ \cup {<<call.game,
                                     RefetchCounter(c1.incomplete, c1.pcount)>>}
                             ELSE @]
            /\ call' = fin.call

\* One pass of the retry loop for the first participant still to handle:
\* resolve its uid (cached, else remote), recheck the uid when it is due, upsert.
\* Only ValueError is caught around the upsert: any other exception of it
\* leaves _ingest_game_participants_core and its caller.
ParticipantAttempt ==
    /\ call.pc = "participants"
    /\ \E entry \in {call.roster[1]} :
       \E start \in {IF entry.startDtm = NoTime THEN mgr.ingest_started_at
                     ELSE entry.startDtm} :
       \E cache \in {CachedUids(store, cfg, entry.nickname)} :
       \E cu \in (IF cache = {} THEN {NoUid} ELSE cache) :
       \E r \in (IF cu = NoUid THEN ResolverOutcomes(mgr, cfg, entry.nickname)
                 ELSE {NoAnswer}) :
       \E res \in {resolve_uid(mgr, entry.nickname, start, cu, r)} :
       \E recheck \in {res.uid # NoUid /\ needs_uid_recheck(store, now, res.uid)} :
       \E o \in (IF recheck THEN UserGamesOutcomes ELSE {"ok"}) :
       \E r2 \in (IF recheck /\ Rejected(o)
                  THEN ResolverOutcomes(res.mgr, cfg, entry.nickname)
                  ELSE {NoAnswer}) :
       \E v \in {validate_uid(store, res.mgr, cfg, now, res.uid,
                              entry.nickname, o, r2)} :
       \E broke \in {res.uid # NoUid /\ (v.raised # "" \/ v.uid = NoUid)} :
       \E upserts \in {res.uid # NoUid /\ ~broke} :
       \E payload \in {[gameId |-> call.game, uid |-> v.uid,
                         nickname |-> entry.nickname, startDtm |-> start,
                         mmrAfter |-> upstream.mmr]} :
       \E db1 \in {IF upserts /\ entry.fatal
                   THEN upsert_user(v.db, payload, FALSE)
                   ELSE IF upserts
                   THEN upsert_from_game_payload(v.db, payload, FALSE)
                   ELSE IF res.uid # NoUid THEN v.db ELSE store} :
       \E ob0 \in {ObservePart(obs, entry.nickname, entry, cu,
                               IF cu = NoUid THEN NoTime
                               ELSE store.users[cu].last_seen,
                               res, v, upserts, o)} :
       \E ob1 \in {ObserveResolver(
                       ObserveResolver(ob0, entry.nickname, r, res.lookup),
                       entry.nickname, r2, res.uid # NoUid /\ v.lookup)} :
          IF upserts /\ entry.fatal
          THEN /\ store' = db1
               /\ mgr' = v.mgr
               /\ obs' = [ob1 EXCEPT !.aborted = call.game,
                                      !.cause = "upsert",
                                      !.unreported = TRUE]
               /\ call' = [call EXCEPT !.pc = "raised"]
          ELSE AfterAttempt(db1, IF res.uid # NoUid THEN v.mgr ELSE res.mgr,
                            ob1, upserts /\ ~entry.bad, broke)
    /\ committed' = CommitAfterWrite(committed, store')
    /\ UNCHANGED <<cfg, now, upstream>>

\* An external interrupt (KeyboardInterrupt) while a match's participants are
\* being handled: the transaction block is left by the exception.
Interrupt ==
    /\ call.pc = "participants"
    /\ store' = Rollback(committed)
    /\ call' = [call EXCEPT !.pc = "raised"]
    /\ obs' = [obs EXCEPT !.aborted = call.game, !.cause = "interrupt"]
    /\ UNCHANGED <<committed, mgr, cfg, now, upstream>>

\* ingest_user / refetch_incomplete_games returns or raises to its caller.
Return ==
    /\ call.pc \in {"done", "raised"}
    /\ call.caller = ""
    /\ call' = IdleCall
    /\ obs' = [obs EXCEPT !.last_done =
                  IF /\ call.op = "ingest" /\ call.pc = "done"
                     /\ cfg.only_newer_games /\ obs.answers \subseteq {"ok"}
                  THEN call.uid ELSE NoUid]
    /\ UNCHANGED <<store, committed, mgr, cfg, now, upstream>>

(* -------------------------- ingest_from_seeds -------------------------- *)

\* The orders in which "for next_user in new_users" may visit a set.
Orders(S) == {s \in [1..Cardinality(S) -> S] : Range(s) = S}

\* ingest_from_seeds(seeds, depth=depth): the queue holds every seed at depth 0.
IngestFromSeeds(seeds, depth) ==
    /\ call.pc = "idle"
    /\ obs.left > 0
    /\ call' = [IdleCall EXCEPT
                  !.pc = "queue", !.op = "seeds", !.depth = depth,
                  !.queue = [i \in 1..Len(seeds) |->
                                [nickname |-> seeds[i], depth |-> 0]]]
    /\ obs' = [StartObs(obs) EXCEPT !.start_store = store, !.given = seeds]
    /\ UNCHANGED <<store, committed, mgr, cfg, now, upstream>>

\* One turn of "while queue": the loop ends, a nickname seen before is
\* dropped, a nickname that does not resolve is skipped, or ingest_user is
\* called with the resolved uid and the nickname as seed_nickname.
NextSeed ==
    /\ call.pc = "queue"
    /\ call.op = "seeds"
    /\ IF call.queue = <<>>
       THEN /\ call' = [call EXCEPT !.pc = "done"]
            /\ UNCHANGED <<mgr, obs>>
       ELSE
         \E item \in {Head(call.queue)} :
         \E c1 \in {[call EXCEPT !.queue = Tail(@),
                                 !.seen_nicknames = @ \cup {item.nickname},
                                 !.current_depth = item.depth]} :
           IF item.nickname \in call.seen_nicknames
           THEN /\ call' = [call EXCEPT !.queue = Tail(@)]
                /\ UNCHANGED <<mgr, obs>>
           ELSE
             \E cache \in {CachedUids(store, cfg, item.nickname)} :
             \E cu \in (IF cache = {} THEN {NoUid} ELSE cache) :
             \E r \in (IF cu = NoUid
                       THEN ResolverOutcomes(mgr, cfg, item.nickname)
                       ELSE {NoAnswer}) :
             \E res \in {resolve_uid(mgr, item.nickname, NoTime, cu, r)} :
             \E ob1 \in {ObserveResolver(obs, item.nickname, r, res.lookup)} :
               /\ mgr' = res.mgr
               /\ IF res.uid = NoUid
                  THEN /\ call' = c1
                       /\ obs' = [ob1 EXCEPT !.unresolved = @ \cup {item.nickname}]
                  ELSE /\ call' = EnterIngestUser([c1 EXCEPT !.caller = "seeds"],
                                                  store, cfg, res.uid, item.nickname)
                       /\ obs' = [ob1 EXCEPT
                                    !.started = @ \cup {item.nickname},
                                    !.levels = @ \cup {<<item.nickname, item.depth>>},
                                    !.restarted =
                                        @ \/ item.nickname \in obs.started,
                                    !.arg = res.uid, !.uid = res.uid]
    /\ UNCHANGED <<store, committed, cfg, now, upstream>>

\* A loop that queues what was discovered whatever the depth.
SeedsQueueWithoutDepth(c, order) ==
    [IdleCall EXCEPT
       !.pc = "queue", !.op = "seeds", !.depth = c.depth,
       !.seen_nicknames = c.seen_nicknames,
       !.queue = c.queue \o
                      [i \in 1..Len(order) |->
                          [nickname |-> order[i], depth |-> c.current_depth + 1]]]

\* A loop that gives the queue up when a seed's traversal was aborted.
SeedsStopAfterAbort(c, order) ==
    [IdleCall EXCEPT
       !.pc = "queue", !.op = "seeds", !.depth = c.depth,
       !.seen_nicknames = c.seen_nicknames,
       !.queue = IF c.aborted THEN <<>>
                 ELSE IF c.current_depth + 1 > c.depth THEN c.queue
                 ELSE c.queue \o
                      [i \in 1..Len(order) |->
                          [nickname |-> order[i], depth |-> c.current_depth + 1]]]

\* The locals of ingest_from_seeds after ingest_user returned new_users
\* (visited in the given order): within the depth the nicknames not seen yet
\* are queued one level deeper.
SeedsAfterUser(c, order) ==
    [IdleCall EXCEPT
       !.pc = "queue", !.op = "seeds", !.depth = c.depth,
       !.seen_nicknames = c.seen_nicknames,
       !.queue = IF c.current_depth + 1 > c.depth THEN c.queue
                 ELSE c.queue \o
                      [i \in 1..Len(order) |->
                          [nickname |-> order[i], depth |-> c.current_depth + 1]]]

\* ingest_user returns to ingest_from_seeds, or its exception leaves
\* ingest_from_seeds as well.
SeedReturn ==
    /\ call.caller = "seeds"
    /\ call.pc \in {"done", "raised"}
    /\ IF call.pc = "raised"
       THEN /\ call' = [IdleCall EXCEPT !.pc = "raised", !.op = "seeds",
                                         !.depth = call.depth]
            /\ obs' = obs
       ELSE \E order \in Orders(call.discovered \ call.seen_nicknames) :
            /\ call' = SeedsAfterUser(call, order)
            /\ obs' = [obs EXCEPT
                          !.given_up =
                              IF call.aborted THEN @ \cup {call.seed} ELSE @,
                          !.found = @ \cup {<<call.seed, n>> :
                                                n \in call.discovered}]
    /\ UNCHANGED <<store, committed, mgr, cfg, now, upstream>>

(* ---------------------- refetch_incomplete_games ----------------------- *)

\* One turn of "for game_id in game_ids": a forced re-fetch of the match
\* inside its own transaction, from the locals c and the observations ob.
RefetchGame(c, ob, game_id) ==
    \E c1 \in {[c EXCEPT !.game = game_id, !.stats.total = @ + 1,
                          !.roster = <<>>, !.attempt = 0, !.pcount = 0,
                          !.incomplete = FALSE]} :
    \E m1 \in {[mgr EXCEPT !.seen_games = @ \cup {game_id}]} :
    \E early \in {RefetchTail(store, now, game_id, FALSE, 0)} :
    \E missing \in {record_refetch_failure(store, now, game_id, "missing",
                                           "http_404")} :
       IF CoreReturnsEarly(store, mgr, game_id)
       THEN /\ store' = early
            /\ committed' = CommitAfterWrite(committed, early)
            /\ mgr' = mgr
            /\ obs' = [ob EXCEPT !.counted = @ \cup {<<game_id, "empty">>}]
            /\ call' = RefetchEnd(c1, "empty")
       ELSE \E fo \in GameResultOutcomes :
            \E ob1 \in {[ob EXCEPT !.refetched = @ \cup {<<game_id, fo>>}]} :
            IF fo = "ok"
            THEN IF Len(upstream.roster[game_id]) = 0
                 THEN /\ store' = early
                      /\ committed' = CommitAfterWrite(committed, early)
                      /\ mgr' = m1
                      /\ obs' = [ob1 EXCEPT
                                    !.fetched = @ \cup {game_id},
                                    !.counted = @ \cup {<<game_id, "empty">>}]
                      /\ call' = RefetchEnd(c1, "empty")
                 ELSE /\ UNCHANGED <<store, committed>>
                      /\ mgr' = m1
                      /\ obs' = [ob1 EXCEPT !.fetched = @ \cup {game_id}]
                      /\ call' = [c1 EXCEPT !.pc = "participants",
                                     !.roster = upstream.roster[game_id],
                                     !.pcount = Len(upstream.roster[game_id]),
                                     !.attempt = 1]
            ELSE IF is_game_result_payload_not_found_error(fo)
            THEN /\ store' = missing
                 /\ committed' = CommitAfterWrite(committed, missing)
                 /\ mgr' = m1
                 /\ obs' = [ob1 EXCEPT
                               !.counted = @ \cup {<<game_id, "not_found">>}]
                 /\ call' = RefetchEnd(c1, "not_found")
            ELSE /\ store' = Rollback(committed)
                 /\ UNCHANGED committed
                 /\ mgr' = m1
                 /\ obs' = [ob1 EXCEPT !.aborted = game_id, !.cause = fo,
                                        !.unreported =
                                           ~is_transport_not_found_error(fo)]
                 /\ call' = [c1 EXCEPT !.pc = "raised"]

\* refetch_incomplete_games(game_ids) with the first id of game_ids.
StartRefetch(game_ids) ==
    /\ call.pc = "idle"
    /\ obs.left > 0
    /\ game_ids # <<>>
    /\ RefetchGame([IdleCall EXCEPT !.op = "refetch", !.force = TRUE,
                                    !.ids = game_ids, !.rest = Tail(game_ids)],
                   [StartObs(obs) EXCEPT !.start_store = store],
                   Head(game_ids))
    /\ UNCHANGED <<cfg, now, upstream>>

\* refetch_incomplete_games with the next id of game_ids.
RefetchNext ==
    /\ call.pc = "next"
    /\ call.op = "refetch"
    /\ RefetchGame([call EXCEPT !.rest = Tail(@)], obs, Head(call.rest))
    /\ UNCHANGED <<cfg, now, upstream>>

(* --------------------------- environment ------------------------------- *)

\* The clock advances between calls.
Tick ==
    /\ call.pc = "idle"
    /\ now < MaxTime
    /\ now' = now + 1
    /\ UNCHANGED <<store, committed, mgr, cfg, upstream, call, obs>>

\* A new invocation constructs a new IngestionManager over the same store.
NewRun ==
    /\ call.pc = "idle"
    /\ mgr # NewManager(now)
    /\ mgr' = NewManager(now)
    /\ obs' = [obs EXCEPT !.answered = {}, !.fetch_failed = {}]
    /\ UNCHANGED <<store, committed, cfg, now, upstream, call>>

\* tools: sqlite-prune --before cutoff --apply, run between ingestions.
Prune(cutoff) ==
    /\ call.pc = "idle"
    /\ store.prune_before = NoTime \/ store.prune_before < cutoff
    /\ store' = prune_matches_before(store, cutoff)
    /\ committed' = CommitAfterWrite(committed, store')
    /\ obs' = [obs EXCEPT !.last_done = NoUid]
    /\ UNCHANGED <<mgr, cfg, now, upstream, call>>


(* --------------------------- initial states ---------------------------- *)

\* The participant lists the remote API may serve for a match that started at
\* t: nobody, one other player (with or without a startDtm of its own, or with
\* a malformed record), or the seed player and another.
Rosters(t) ==
    {<<>>,
     <<Entry("dup", t, FALSE)>>,
     <<Entry("dup", NoTime, FALSE)>>,
     <<Entry("dup", t, TRUE)>>,
     <<Entry("seed", t, FALSE), Entry("dup", t, FALSE)>>}

\* The match list 1..n in server order, on one page or split in two.
Listings(n) ==
    {<<[i \in 1..n |-> i]>>}
    \cup {<<[i \in 1..k |-> i], [i \in 1..(n - k) |-> k + i]>> :
            k \in 1..(n - 1)}

\* What the remote API serves: the seed player's match list, and per match its
\* start time and its participant list.
Upstreams(n, starts, rosters) ==
    {[pages |-> p, start |-> st, roster |-> ro, owner |-> "seed", mmr |-> 0] :
        p \in Listings(n), st \in [1..n -> starts], ro \in [1..n -> rosters]}

\* IngestionManager(...) arguments; 0 stands for max_games_per_user=None.
Config(newer, details, prefer, games, nick, failed, attempts, retries) ==
    [only_newer_games |-> newer, fetch_game_details |-> details,
     prefer_nickname_fetch |-> prefer, max_games_per_user |-> games,
     max_nickname_attempts |-> nick, max_failed_uids_per_seed |-> failed,
     max_seed_uid_resolve_attempts |-> attempts,
     participant_retry_attempts |-> retries]

\* A users row as upsert_user inserts it for a record seen at time t.
SeenUser(nickname, t, mark_ingested) ==
    NewUserRow([nickname |-> nickname, startDtm |-> t, mmrAfter |-> 0, uid |-> NoUid,
                gameId |-> 0], mark_ingested)

InitWith(stores, cfgs, ups, times, calls) ==
    /\ store \in stores
    /\ committed = store
    /\ cfg \in cfgs
    /\ upstream \in ups
    /\ now \in times
    /\ mgr = NewManager(now)
    /\ call = IdleCall
    /\ obs = [NewObs EXCEPT !.left = calls]

(* ------------------ the stale-identity recovery loop ------------------- *)

\* The seed's uid is either unknown to the store or was last checked at time 0.
RecoveryStores ==
    {EmptyStore,
     [EmptyStore EXCEPT !.users = [u \in {"UA"} |-> SeenUser("seed", 0, TRUE)]]}

RecoveryConfigs ==
    {Config(FALSE, FALSE, FALSE, 0, 1, f, a, 1) :
        f \in 0..MaxLimit, a \in 0..MaxLimit}

RecoveryUpstreams == Upstreams(MaxGame, {0}, {<<>>})

InitRecovery ==
    InitWith(RecoveryStores, RecoveryConfigs, RecoveryUpstreams, {1}, MaxCalls)

NextRecovery ==
    \/ \E n \in {"seed", ""} : StartIngestUser("UA", n)
    \/ ValidateSeed
    \/ FetchPage
    \/ ProcessRecord
    \/ Return
    \/ Tick

SpecRecovery == InitRecovery /\ [][NextRecovery]_vars

\* min(max_failed_uids_per_seed, max_seed_uid_resolve_attempts)
RecoveryLimit ==
    Min(cfg.max_failed_uids_per_seed, cfg.max_seed_uid_resolve_attempts)

\* C1 as stated: in one traversal of a seed the rejected fetch_user_games calls
\* (validation probe and pagination together) never exceed
\* min(max_failed_uids_per_seed, max_seed_uid_resolve_attempts).
C1_RejectedCallsWithinLimit == obs.rejected_calls <= RecoveryLimit

\* C1 amended: the pagination loop of one ingest_user call makes at most
\* max(1, min(max_failed_uids_per_seed, max_seed_uid_resolve_attempts))
\* rejected fetch_user_games calls, so the recovery loop terminates; a rejected
\* validation probe is one rejected call more.
C1_LoopRejectionsWithinLimit ==
    /\ obs.loop_rejected_calls <= Max(1, RecoveryLimit)
    /\ obs.rejected_calls <= obs.loop_rejected_calls + 1
    /\ obs.probe = "" => obs.rejected_calls = obs.loop_rejected_calls
    /\ obs.rejected_calls <=
         Max(2, Min(cfg.max_failed_uids_per_seed + 1,
                    cfg.max_seed_uid_resolve_attempts))

\* The limit is reached by the loop after a rejected probe.
C1_LimitReached ==
    /\ RecoveryLimit >= 1
    /\ obs.probe = "e404"
    /\ obs.loop_rejected_calls = RecoveryLimit
    /\ obs.rejected_calls = RecoveryLimit + 1
    /\ call.pc = "done"

\* C2 as stated: within one traversal (probe and pagination) fetch_user_games
\* is never called with a uid that was already rejected in that traversal.
C2_NoRejectedUidCalledAgain == ~obs.recalled

\* C2 amended: the pagination loop never calls fetch_user_games with a uid the
\* loop itself saw rejected; the only uid called again after a rejection is
\* the one whose validation probe answered payload 404.
C2_LoopNeverRetriesRejectedUid ==
    /\ ~obs.loop_recalled
    /\ obs.recalled => obs.probe = "e404"

\* The loop went on with a recovered uid after a rejection, and that one was
\* rejected as well.
C2_TwoVariantsRejected ==
    /\ Cardinality(obs.loop_rejected) >= 2
    /\ obs.loop_rejected_calls >= 2

\* Both recovery limits are 3, so that a second uid can be rejected and the
\* resolver asked again within one traversal; UA may be due for a recheck.
InitRecoveryCycle ==
    InitWith(RecoveryStores, {Config(FALSE, FALSE, FALSE, 0, 1, 3, 3, 1)},
             Upstreams(1, {0}, {<<>>}), {1, 2}, MaxCalls)

SpecRecoveryCycle == InitRecoveryCycle /\ [][NextRecovery]_vars

\* A step in which fetch_user_games rejected the uid of a seed's traversal.
RejectedStep ==
    /\ call.seed # ""
    /\ obs'.rejected_calls = obs.rejected_calls + 1

\* The step restarts pagination at the first page with a uid that is neither
\* the rejected one nor one rejected for the seed before.
RestartedWithNewUid ==
    /\ call'.pc = "fetch"
    /\ call'.token = 0
    /\ call'.uid # call.uid
    /\ call'.uid # NoUid
    /\ call'.uid = obs'.resolved
    /\ call'.uid \notin mgr.uid_missing[call.seed]

\* The step ends the traversal without an exception.
AbortedQuietly ==
    /\ call'.pc = "done"
    /\ call'.aborted

\* The step is a validation probe answered payload 404 after which the
\* traversal begins with the uid it was called with.
ProbeNoGamesKeptUid ==
    /\ call.pc = "validate"
    /\ obs'.probe = "e404"
    /\ call'.pc = "fetch"
    /\ call'.token = 0
    /\ call'.uid = call.uid

C32_CountersOfThisTraversalOnly ==
    (call.op = "ingest" /\ call.seed # "") =>
        /\ mgr.uid_missing[call.seed] \subseteq obs.rejected_uids
        /\ mgr.resolve_attempts[call.seed] <= obs.rejected_calls

\* C33 as stated: after a recheck probe of the seed uid answered payload 404
\* the uid is marked checked and the traversal goes on with the uid it was
\* called with, whatever the nickname resolver returns.
C33_NoGamesProbeKeepsUid ==
    (call.op = "ingest" /\ obs.probe = "e404" /\ obs.loop_rejected_calls = 0) =>
        /\ call.uid = obs.arg
        /\ obs.lookups = {} => ~call.aborted
        /\ store.users[obs.arg].last_checked
             # obs.start_store.users[obs.arg].last_checked

(* --------------------------- tombstoned matches ------------------------ *)

\* Match 1 may carry a tombstone written without a prune floor; sqlite-prune
\* adds tombstones and the floor between traversals.
TombstoneStores ==
    {EmptyStore, [EmptyStore EXCEPT !.deleted_games = {1}]}

TombstoneConfigs ==
    {Config(FALSE, d, FALSE, 0, 1, 1, 1, 1) : d \in BOOLEAN}

TombstoneUpstreams ==
    {u \in Upstreams(MaxGame, {1, 2}, {<<>>, <<Entry("dup", 1, FALSE)>>}) :
        /\ \A g \in Games : u.roster[g] = u.roster[1]
        /\ Len(u.pages) = 1}

InitTombstone ==
    InitWith(TombstoneStores, TombstoneConfigs, TombstoneUpstreams, {1}, MaxCalls)

NextTombstone ==
    \/ StartIngestUser("UA", "")
    \/ FetchPage
    \/ ProcessRecord
    \/ ParticipantAttempt
    \/ Return
    \/ \E g \in Games : StartRefetch(<<g>>)
    \/ \E t \in 1..(MaxTime - 1) : Prune(t)

SpecTombstone == InitTombstone /\ [][NextTombstone]_vars

\* No Match row and no Participation row exists for a tombstoned match id.
NoRowsForTombstoned ==
    \A g \in store.deleted_games :
        /\ g \notin DOMAIN store.matches
        /\ \A s \in store.stats : s[1] # g

\* ingest_user is at a listing record whose match id is tombstoned.
AtTombstonedRecord ==
    /\ call.pc = "records"
    /\ call.games[call.idx] \in store.deleted_games

\* C3 as stated: a tombstoned match id never gets a Match or Participation
\* row, and a listing record carrying it is skipped with the traversal going
\* on to the next record.
C3_TombstonedSkippedAndContinued ==
    /\ [] NoRowsForTombstoned
    /\ [][AtTombstonedRecord =>
            /\ ~call'.stop
            /\ call.games[call.idx] \in obs'.skipped]_vars

\* C3 amended: a tombstoned match id never gets a Match or Participation row
\* and its participants are never fetched; a listing record carrying it ends
\* the traversal when its start time is at or before the prune floor or the
\* watermark, and is otherwise skipped with the traversal going on.
C3_TombstonedNeverStored ==
    /\ [] NoRowsForTombstoned
    /\ [][AtTombstonedRecord =>
            /\ store' = store
            /\ obs'.fetched = obs.fetched
            /\ LET start == upstream.start[call.games[call.idx]]
               IN IF StopAtPrune(call, start) \/ StopAtCutoff(call, start)
                  THEN call'.stop /\ call'.pc = "done"
                  ELSE /\ ~call'.stop
                       /\ call.games[call.idx] \in obs'.skipped
                       /\ call'.pc \in {"records", "fetch", "done"}]_vars
    /\ [][call.op = "none" /\ call'.op = "refetch"
            /\ call'.game \in store.deleted_games =>
               obs'.fetched = {} /\ call'.pc = "done"]_vars

\* A tombstoned record was skipped and a later record was then upserted.
C3_SkippedThenWentOn ==
    /\ obs.skipped # {}
    /\ obs.after_skip
    /\ obs.skipped \subseteq store.deleted_games

(* ----------------------- participant reconciliation -------------------- *)

\* The listing record of match 1 as an earlier ingest_user("UA") stored it,
\* with the match flagged incomplete by a failed participant.
IncompleteMatchStore(db) ==
    mark_game_incomplete(
        upsert_from_game_payload(db,
            [gameId |-> 1, uid |-> "UA", nickname |-> "seed", startDtm |-> 2,
             mmrAfter |-> 0], TRUE), 1)

\* The store knows nobody or knows "dup" as uid UB, last seen and checked at
\* 0; match 1 may be there already, flagged incomplete.
ParticipantStores ==
    LET known == [EmptyStore EXCEPT
                    !.users = [u \in {"UB"} |-> SeenUser("dup", 0, FALSE)]]
    IN {EmptyStore, known, IncompleteMatchStore(EmptyStore),
        IncompleteMatchStore(known)}

ParticipantConfigs ==
    {Config(FALSE, TRUE, p, 0, 1, 2, 2, 2) : p \in BOOLEAN}

\* Every match started at time 2 and has the same participant list.
ParticipantUpstreams ==
    {u \in Upstreams(MaxGame, {2}, Rosters(2)) :
        /\ \A g \in Games : u.roster[g] = u.roster[1]
        /\ Len(u.pages) = 1}

InitParticipants ==
    InitWith(ParticipantStores, ParticipantConfigs, ParticipantUpstreams,
             {1}, MaxParticipantCalls)

NextParticipants ==
    \/ StartIngestUser("UA", "")
    \/ FetchPage
    \/ ProcessRecord
    \/ ParticipantAttempt
    \/ Interrupt
    \/ Return
    \/ \E g \in Games : StartRefetch(<<g>>)
    \/ Tick

SpecParticipants == InitParticipants /\ [][NextParticipants]_vars

\* C4: a match whose fetched participant list had a participant that failed
\* to persist is flagged incomplete once the pass is over, and a match whose
\* refetch pass returned participants and had no failure is not flagged.
C4_IncompleteFlagFollowsFailures ==
    \A g \in obs.passed \cap DOMAIN store.matches :
        /\ g \in obs.fetched
        /\ g \in obs.failed => store.matches[g].incomplete
        /\ (call.op = "refetch" /\ g \notin obs.failed)
               => ~store.matches[g].incomplete

\* A pass of ingest_user over a fetched participant list ended with a failed
\* participant on a match that was not flagged before.
C4_FailedPassFlagged ==
    \E g \in obs.passed \cap obs.failed :
        /\ call.op = "ingest"
        /\ g \notin DOMAIN obs.start_store.matches
        /\ store.matches[g].incomplete

\* A refetch pass without failure cleared the flag of a flagged match.
RefetchClearedFlag ==
    \E g \in obs.passed \ obs.failed :
        /\ call.op = "refetch"
        /\ g \in DOMAIN obs.start_store.matches
        /\ obs.start_store.matches[g].incomplete
        /\ ~store.matches[g].incomplete

\* C26 as stated: a match's incomplete flag is true if and only if a
\* participant upsert failed during the most recent pass over the match.
C26_FlagIffFailedInLastPass ==
    \A g \in obs.passed \cap DOMAIN store.matches :
        store.matches[g].incomplete <=> g \in obs.failed

\* C5: when a match's transaction is left by an interrupt or an exception,
\* the store holds neither the Match row nor a Participation row of a match
\* it did not hold before.
C5_AbortedMatchAbsent ==
    (/\ call.pc = "raised"
     /\ obs.aborted # 0
     /\ obs.aborted \notin DOMAIN obs.start_store.matches)
    => /\ obs.aborted \notin DOMAIN store.matches
       /\ \A s \in store.stats : s[1] # obs.aborted

\* The last participant handled had a cached uid and the cache was consulted.
CachedParticipant ==
    /\ ~cfg.prefer_nickname_fetch
    /\ obs.part.cached # NoUid

PersistedUnderCachedUid ==
    /\ obs.part.uid = obs.part.cached
    /\ ~obs.part.lookup

MissingStartCacheKept ==
    /\ CachedParticipant
    /\ PersistedUnderCachedUid
    /\ obs.part.startDtm = NoTime

(* ------------------------- incremental traversal ----------------------- *)

\* The seed player is new to the store, or was ingested up to time 1.
IncrementalStores ==
    {EmptyStore,
     [EmptyStore EXCEPT !.users = [u \in {"UA"} |-> SeenUser("seed", 1, TRUE)]]}

IncrementalConfigs == {Config(TRUE, FALSE, FALSE, 0, 1, 2, 2, 1)}

\* The first page holds at least two records.
IncrementalUpstreams ==
    {u \in Upstreams(MaxListed, 0..2, {<<>>}) : Len(u.pages[1]) >= 2}

InitIncremental ==
    InitWith(IncrementalStores, IncrementalConfigs, IncrementalUpstreams,
             {2}, MaxCalls)

NextIncremental ==
    \/ StartIngestUser("UA", "seed")
    \/ ValidateSeed
    \/ FetchPage
    \/ ProcessRecord
    \/ Return
    \/ Tick

SpecIncremental == InitIncremental /\ [][NextIncremental]_vars

\* The records of the current page before position i.
Before(i) == {call.games[k] : k \in 1..(i - 1)}

\* The records of the current page from position i on.
From(i) == {call.games[k] : k \in i..Len(call.games)}

\* C6: with a watermark, ingest_user takes the records of a page in the
\* server's order and stops at the first one whose start time is at or before
\* the watermark: the records before it are upserted, it and the later ones
\* are not, and no further page is fetched.
C6_StopsAtFirstRecordAtWatermark ==
    (call.op = "ingest" /\ call.cutoff # NoTime) =>
        /\ \A g \in obs.upserted : upstream.start[g] > call.cutoff
        /\ call.pc = "records" =>
              /\ Before(call.idx) \subseteq obs.upserted
              /\ From(call.idx) \cap obs.upserted = {}
        /\ obs.stopped =>
              /\ call.pc = "done"
              /\ upstream.start[call.games[call.idx]] <= call.cutoff
              /\ Before(call.idx) \subseteq obs.upserted
              /\ From(call.idx) \cap obs.upserted = {}
              /\ ~obs.after_stop

\* The traversal upserted the first record of a page, stopped at the second,
\* and left a further page unfetched.
C6_StoppedMidPage ==
    /\ obs.stopped
    /\ call.cutoff # NoTime
    /\ call.idx = 2
    /\ call.games[1] \in obs.upserted
    /\ NextToken(upstream, call.token) # 0
    /\ call.pc = "done"

\* The store but for the last_checked column of uid's row.
IgnoringLastChecked(db, uid) ==
    IF uid \in DOMAIN db.users
    THEN [db EXCEPT !.users[uid].last_checked = NoTime]
    ELSE db

\* C7 as stated: a second ingest_user(uid) after a completed incremental one,
\* with nothing new upstream, leaves every row and column of the store as
\* it was.
C7_RerunLeavesStoreUnchanged == obs.rerun => store = obs.start_store

\* C7 amended: such a second run, as long as it stays with the same uid,
\* changes nothing but the last_checked time of that uid's users row.
C7_RerunChangesOnlyLastChecked ==
    (obs.rerun /\ obs.uid = obs.arg) =>
        IgnoringLastChecked(store, obs.arg)
            = IgnoringLastChecked(obs.start_store, obs.arg)

\* A second run stopped at the watermark and moved last_checked only.
C7_RerunStoppedAtWatermark ==
    /\ obs.rerun
    /\ obs.stopped
    /\ call.pc = "done"
    /\ store # obs.start_store
    /\ store.matches # <<>>

\* C11: once the remote resolver has answered 'not found' for a nickname, no
\* later resolution on the same IngestionManager (a participant retry, another
\* participant or match, a seed recovery) calls the resolver for that nickname
\* again: every nickname so answered is in the manager's not-found memo.
C11_NotFoundNeverAskedAgain ==
    /\ ~obs.relooked
    /\ obs.answered \subseteq mgr.not_found

\* A participant whose nickname was answered 'not found' earlier is resolved
\* again (no cached uid) and the resolver is not called.
C11_MemoAnswered ==
    /\ obs.part.nickname \in obs.answered
    /\ obs.part.nickname \in mgr.not_found
    /\ obs.part.cached = NoUid
    /\ obs.part.uid = NoUid
    /\ ~obs.part.lookup
    /\ obs.failed # {}

\* C12 as stated: an exception leaves ingest_user only for a transport-level
\* 404 or an external interrupt; every other failure of the remote client is
\* handled without raising.
C12_OnlyFatalOrInterruptRaised ==
    (call.op = "ingest" /\ call.pc = "raised")
        => obs.cause \in {"http404", "interrupt"}

\* C13 as stated: a transport-level 404 met by any remote call of the engine
\* propagates to the caller; here the call is the probe of a participant's
\* uid during participant reconciliation.
C13_TransportNotFoundRaised ==
    obs.part.probe = "http404" => call.pc = "raised"

(* ------------------------------ seed queue ---------------------------- *)

\* The store knows nobody, or knows the nickname "seed" as uid UA, last seen
\* and checked at 0.
SeedStores ==
    {EmptyStore,
     [EmptyStore EXCEPT !.users = [u \in {"UA"} |-> SeenUser("seed", 0, TRUE)]]}

SeedConfigs ==
    {Config(FALSE, FALSE, FALSE, 0, 1, k, k, 1) : k \in 1..MaxLimit}

\* The seed lists handed to ingest_from_seeds.
SeedLists ==
    {<<"seed", "dup">>, <<"dup", "seed">>, <<"seed", "seed", "dup">>}

InitSeeds ==
    InitWith(SeedStores, SeedConfigs, Upstreams(1, {0}, {<<>>}), {1, 2}, 1)

NextSeeds ==
    \/ \E s \in SeedLists, d \in 0..1 : IngestFromSeeds(s, d)
    \/ NextSeed
    \/ ValidateSeed
    \/ FetchPage
    \/ ProcessRecord
    \/ SeedReturn
    \/ Return

SpecSeeds == InitSeeds /\ [][NextSeeds]_vars

\* C14: in ingest_from_seeds a seed whose nickname does not resolve, or whose
\* match list is rejected with recovery exhausted, is given up without an
\* exception, and when the loop ends every seed it was given has been
\* handled: ingest_user was called for it unless its own nickname did not
\* resolve.  Only a transport-level 404 leaves the loop as an exception.
C14_FailedSeedStopsOnlyItself ==
    /\ (call.op = "seeds" /\ call.pc = "done") =>
          /\ Range(obs.given) \subseteq obs.started \cup obs.unresolved
          /\ obs.started \cap obs.unresolved = {}
    /\ call.pc = "raised" => obs.cause = "http404"
    /\ call.aborted => call.pc = "done"

\* The loop ended after the first seed's match list was rejected and given
\* up: the seed queued behind it was ingested and its match stored.
C14_OthersIngestedAfterFailure ==
    /\ call.op = "seeds"
    /\ call.pc = "done"
    /\ Head(obs.given) \in obs.given_up
    /\ obs.started \ obs.given_up # {}
    /\ obs.answers \cap {"e401", "e404"} # {}
    /\ store.matches # <<>>

(* --------------------------- re-fetch workflow ------------------------- *)

\* The store after k failed re-fetch attempts of match g at time 0.
RECURSIVE FailedTimes(_, _, _)
FailedTimes(db, g, k) ==
    IF k = 0 THEN db
    ELSE record_refetch_failure(FailedTimes(db, g, k - 1), 0, g, "error",
                                "incomplete_participants")

\* Every match was stored by an earlier ingest_user("UA") and flagged
\* incomplete; match 1 has failed up to MaxAttempts re-fetches since.
RefetchStores ==
    LET RECURSIVE Stored(_)
        Stored(n) ==
            IF n = 0 THEN EmptyStore
            ELSE mark_game_incomplete(
                   upsert_from_game_payload(Stored(n - 1),
                       [gameId |-> n, uid |-> "UA", nickname |-> "seed",
                        startDtm |-> 0, mmrAfter |-> 0], TRUE), n)
    IN {FailedTimes(Stored(MaxGame), 1, k) : k \in 0..MaxAttempts}

RefetchConfigs == {Config(FALSE, TRUE, FALSE, 0, 1, 1, 1, 1)}

\* A match's participant list is empty, or holds one other player whose
\* record persists or is malformed.
RefetchUpstreams ==
    {u \in Upstreams(MaxGame, {0},
                     {<<>>, <<Entry("dup", 0, FALSE)>>, <<Entry("dup", 0, TRUE)>>}) :
        Len(u.pages) = 1}

\* The candidate lists handed to refetch_incomplete_games.
RefetchLists == {<<1>>, <<1, 2>>, <<2, 1>>}

InitRefetch ==
    InitWith(RefetchStores, RefetchConfigs, RefetchUpstreams, {1}, MaxCalls)

NextRefetch ==
    \/ \E ids \in RefetchLists : StartRefetch(ids)
    \/ RefetchNext
    \/ ParticipantAttempt
    \/ Return
    \/ Tick

SpecRefetch == InitRefetch /\ [][NextRefetch]_vars

\* The matches of the call in progress that went to the given counter.
CountedAs(counter) == {g \in Games : <<g, counter>> \in obs.counted}

\* fetch_game_result answered o for match g in the call in progress.
Refetched(g, o) == <<g, o>> \in obs.refetched

\* The incomplete flag of match g is as it was when the call started.
FlagKept(g) ==
    store.matches[g].incomplete = obs.start_store.matches[g].incomplete

\* C16: when the re-fetch of a match returns at least one participant and
\* every participant persists, refetch_incomplete_games clears the match's
\* incomplete flag, removes its schedule entry and counts it as 'cleared'.
C16_SuccessClearsFlagAndEntry ==
    call.op = "refetch" =>
      /\ \A g \in Games :
            (/\ Refetched(g, "ok")
             /\ upstream.roster[g] # <<>>
             /\ g \in obs.passed \ obs.failed)
            => /\ ~store.matches[g].incomplete
               /\ g \notin DOMAIN store.refetch
               /\ g \in CountedAs("cleared")
      /\ call.stats.cleared = Cardinality(CountedAs("cleared"))

\* A match flagged incomplete, with a schedule entry, was re-fetched with
\* every participant persisted.
C16_ClearedWithEntry ==
    /\ call.op = "refetch"
    /\ \E g \in Games :
          /\ Refetched(g, "ok")
          /\ g \in obs.passed \ obs.failed
          /\ g \in DOMAIN obs.start_store.refetch
          /\ obs.start_store.matches[g].incomplete
          /\ g \in CountedAs("cleared")

\* C17: when the re-fetch of a match returns zero participants the match
\* stays incomplete, its schedule entry has status "error" with the reason
\* empty, it is counted as 'empty' and not as 'cleared', and on the first
\* attempt the next-eligible time is the attempt time plus one day.
C17_EmptyStaysIncomplete ==
    call.op = "refetch" =>
      /\ \A g \in Games :
            (Refetched(g, "ok") /\ upstream.roster[g] = <<>>)
            => /\ store.matches[g].incomplete
               /\ FlagKept(g)
               /\ g \in DOMAIN store.refetch
               /\ store.refetch[g].status = "error"
               /\ store.refetch[g].last_error = "empty_participants"
               /\ g \in CountedAs("empty")
               /\ g \notin CountedAs("cleared")
               /\ g \notin DOMAIN obs.start_store.refetch
                     => store.refetch[g].next_refetch_at = now + 1
      /\ call.stats.empty = Cardinality(CountedAs("empty"))

\* A match never re-fetched before returned no participants.
C17_FirstAttemptEmpty ==
    /\ call.op = "refetch"
    /\ \E g \in Games :
          /\ Refetched(g, "ok")
          /\ upstream.roster[g] = <<>>
          /\ g \notin DOMAIN obs.start_store.refetch
          /\ store.refetch[g].attempts = 1
          /\ g \in CountedAs("empty")

\* C18: every failed re-fetch of a match (missing, empty, still incomplete)
\* raises its attempt count by one and sets the next-eligible time to the
\* attempt time plus min(2^(attempts-1), 30) days, attempts being the new
\* count.
C18_BackoffDoublesUpToCap ==
    call.op = "refetch" =>
      \A g \in CountedAs("not_found") \cup CountedAs("empty")
                \cup CountedAs("still_incomplete") :
         /\ g \in DOMAIN store.refetch
         /\ store.refetch[g].attempts =
               get_refetch_attempts(obs.start_store, g) + 1
         /\ store.refetch[g].last_refetch_at = now
         /\ store.refetch[g].next_refetch_at =
               now + (IF 2 ^ (store.refetch[g].attempts - 1) < 30
                      THEN 2 ^ (store.refetch[g].attempts - 1) ELSE 30)

\* A failed attempt whose doubled delay (32 days or more) was cut to 30 days.
C18_CapApplied ==
    /\ call.op = "refetch"
    /\ \E g \in CountedAs("not_found") \cup CountedAs("empty")
                  \cup CountedAs("still_incomplete") :
          /\ store.refetch[g].attempts >= 6
          /\ store.refetch[g].next_refetch_at = now + 30

\* C19: a payload-level 404 of fetch_game_result during
\* refetch_incomplete_games leaves the match incomplete, records status
\* "missing" with a next-eligible time, counts the match as 'not_found' and
\* raises nothing: the call goes on with the remaining ids, and when it
\* returns every id it was given has been counted.
C19_PayloadNotFoundRecorded ==
    call.op = "refetch" =>
      /\ \A g \in Games : Refetched(g, "e404") =>
            /\ FlagKept(g)
            /\ g \in DOMAIN store.refetch
            /\ store.refetch[g].status = "missing"
            /\ store.refetch[g].next_refetch_at # NoTime
            /\ g \in CountedAs("not_found")
      /\ call.stats.not_found = Cardinality(CountedAs("not_found"))
      /\ call.pc = "raised" => obs.cause # "e404"
      /\ Refetched(call.game, "e404") =>
            call.pc = (IF call.rest = <<>> THEN "done" ELSE "next")
      /\ call.pc = "done" =>
            \A i \in 1..Len(call.ids) :
               \E counter \in DOMAIN NoStats : call.ids[i] \in CountedAs(counter)

\* The first of two ids was answered with a payload 404 and the second was
\* re-fetched and cleared after it.
C19_NextIdProcessedAfterMissing ==
    /\ call.op = "refetch"
    /\ call.pc = "done"
    /\ Len(call.ids) = 2
    /\ Refetched(call.ids[1], "e404")
    /\ obs.start_store.matches[call.ids[1]].incomplete
    /\ call.ids[2] \in CountedAs("cleared")

\* C20: a transport-level 404 of fetch_game_result during
\* refetch_incomplete_games propagates to the caller; the match's incomplete
\* flag stays set and its schedule entry is neither written nor updated.
C20_TransportNotFoundLeavesNoTrace ==
    call.op = "refetch" =>
      \A g \in Games : Refetched(g, "http404") =>
         /\ call.pc = "raised"
         /\ call.game = g
         /\ obs.cause = "http404"
         /\ store.matches[g].incomplete
         /\ FlagKept(g)
         /\ (g \in DOMAIN store.refetch) = (g \in DOMAIN obs.start_store.refetch)
         /\ g \in DOMAIN store.refetch
               => store.refetch[g] = obs.start_store.refetch[g]
         /\ \A counter \in DOMAIN NoStats : g \notin CountedAs(counter)

\* The second of two ids, a match with a schedule entry, met the transport
\* 404 after the first id had been counted.
C20_RaisedOnSecondId ==
    /\ call.op = "refetch"
    /\ call.pc = "raised"
    /\ Refetched(call.game, "http404")
    /\ call.game \in DOMAIN obs.start_store.refetch
    /\ obs.counted # {}

\* C15 as stated: no exception leaves ingest_user or refetch_incomplete_games,
\* and no traversal is aborted, before the progress reporter was called about it.
C15_ReportedBeforeLeaving == ~obs.unreported

(* ------------------------------ user rows ------------------------------ *)

\* The payloads upsert_user is given: a uid, a nickname, a startDtm (NoTime:
\* the field is absent) and a rating.
UserPayloads ==
    {[nickname |-> n, startDtm |-> t, mmrAfter |-> m, uid |-> u, gameId |-> 0] :
        n \in Nicknames, t \in TimesOrNull, m \in 0..1, u \in {"UA"}}

\* store.upsert_user(game, mark_ingested=mark_ingested), called on its own.
UpsertUser(game, mark_ingested) ==
    /\ call.pc = "idle"
    /\ store' = upsert_user(store, game, mark_ingested)
    /\ committed' = CommitAfterWrite(committed, store')
    /\ obs' = [obs EXCEPT !.start_store = store,
                          !.payload = game,
                          !.mark_ingested = mark_ingested,
                          !.events = @ \cup {<<game.uid, game.startDtm>>}]
    /\ UNCHANGED <<mgr, cfg, now, upstream, call>>

InitUsers ==
    InitWith({EmptyStore}, {Config(FALSE, FALSE, FALSE, 0, 1, 1, 1, 1)},
             Upstreams(1, {0}, {<<>>}), {0}, 0)

NextUsers == \E game \in UserPayloads, m \in BOOLEAN : UpsertUser(game, m)

SpecUsers == InitUsers /\ [][NextUsers]_vars

\* The last upsert_user call met a stored row of its uid, and both the row's
\* last_seen and the payload's startDtm are set.
UpsertOnStoredUser ==
    /\ obs.payload.uid \in DOMAIN obs.start_store.users
    /\ obs.payload.startDtm # NoTime
    /\ obs.start_store.users[obs.payload.uid].last_seen # NoTime

\* The user row before and after the last upsert_user call.
RowBefore == obs.start_store.users[obs.payload.uid]

RowAfter == store.users[obs.payload.uid]

\* C21 as stated: with either value of mark_ingested, a payload older than the
\* stored last_seen leaves nickname, last_seen and last rating unchanged, and
\* a newer payload replaces them and leaves first_seen unchanged.
C21_OnlyNewerPayloadApplies ==
    UpsertOnStoredUser =>
      /\ obs.payload.startDtm < RowBefore.last_seen =>
            /\ RowAfter.nickname = RowBefore.nickname
            /\ RowAfter.last_seen = RowBefore.last_seen
            /\ RowAfter.last_mmr = RowBefore.last_mmr
      /\ obs.payload.startDtm > RowBefore.last_seen =>
            /\ RowAfter.nickname = obs.payload.nickname
            /\ RowAfter.last_seen = obs.payload.startDtm
            /\ RowAfter.last_mmr = obs.payload.mmrAfter
            /\ RowAfter.first_seen = RowBefore.first_seen

\* The event times of the payloads upserted for uid u.
EventTimes(u) == {e[2] : e \in {x \in obs.events : x[1] = u}} \ {NoTime}

\* C27: for every user row, after any sequence of upsert_user calls in any
\* order of event times, first_seen <= last_seen.
C27_FirstSeenNotAfterLastSeen ==
    \A u \in DOMAIN store.users :
        store.users[u].first_seen # NoTime =>
            /\ store.users[u].last_seen # NoTime
            /\ store.users[u].first_seen <= store.users[u].last_seen

\* A payload older than the stored last_seen was applied to a row (it set the
\* watermark) whose first_seen it precedes, and a newer one had moved
\* last_seen beyond first_seen.
C27_OlderAppliedAfterNewer ==
    /\ UpsertOnStoredUser
    /\ obs.payload.startDtm < RowBefore.first_seen
    /\ RowAfter # RowBefore
    /\ RowAfter.first_seen < RowAfter.last_seen

\* C28 as stated: after any sequence of upsert_user calls in any arrival
\* order, first_seen is the smallest event time among the payloads upserted
\* for the user.
C28_FirstSeenIsMinimum ==
    \A u \in DOMAIN store.users :
        EventTimes(u) # {} =>
            /\ store.users[u].first_seen \in EventTimes(u)
            /\ \A e \in EventTimes(u) : store.users[u].first_seen <= e

\* C38 as stated: a payload whose event time equals the stored last_seen of
\* its uid determines the stored nickname (the last write wins an exact tie).
C38_LastWriteWinsTie ==
    (UpsertOnStoredUser /\ obs.payload.startDtm = RowBefore.last_seen) =>
        RowAfter.nickname = obs.payload.nickname

\* C40: under any sequence of upsert_user calls, with any event times and
\* either value of mark_ingested, a stored watermark never moves to an earlier
\* time and, once set, never becomes empty again.
C40_WatermarkMonotonic ==
    [][\A u \in DOMAIN store.users :
          store.users[u].ingested_until # NoTime =>
              /\ u \in DOMAIN store'.users
              /\ store'.users[u].ingested_until # NoTime
              /\ store'.users[u].ingested_until >=
                     store.users[u].ingested_until]_vars

\* A newer payload without mark_ingested was applied to a row whose watermark
\* is set, and the watermark stayed.
C40_NewerUnmarkedKeptWatermark ==
    /\ UpsertOnStoredUser
    /\ ~obs.mark_ingested
    /\ RowBefore.ingested_until # NoTime
    /\ RowAfter.last_seen > RowBefore.last_seen
    /\ RowAfter.ingested_until = RowBefore.ingested_until

(* ------------------- the watermark and the last-seen time --------------- *)

\* The seed player met as a participant or as the owner of a listed match.
SeedPayloads ==
    {game \in UserPayloads :
        game.nickname = "seed" /\ game.mmrAfter = 0 /\ game.startDtm \in 0..2}

\* Incremental mode over an empty store; every match started at 0, 1 or 2.
InitWatermark ==
    InitWith({EmptyStore}, {Config(TRUE, FALSE, FALSE, 0, 1, 1, 1, 1)},
             Upstreams(MaxGame, 0..2, {<<>>}), {2}, MaxCalls)

NextWatermark ==
    \/ \E game \in SeedPayloads, m \in BOOLEAN : UpsertUser(game, m)
    \/ StartIngestUser("UA", "seed")
    \/ ValidateSeed
    \/ FetchPage
    \/ ProcessRecord
    \/ Return

SpecWatermark == InitWatermark /\ [][NextWatermark]_vars

\* The matches of the seed player's listing, over all pages.
Listed == UNION {Range(upstream.pages[i]) : i \in 1..Len(upstream.pages)}

\* The watermark of the uid ingest_user was called with, when the call began.
WatermarkAtStart ==
    IF obs.arg \in DOMAIN obs.start_store.users
    THEN obs.start_store.users[obs.arg].ingested_until ELSE NoTime

\* The ingest_user call in progress met no rejection and no failure.
UndisturbedIngest ==
    /\ call.op = "ingest"
    /\ obs.answers \subseteq {"ok"}
    /\ obs.rejected_calls = 0

\* C22: the incremental cutoff is the ingested-until watermark, not
\* last_seen.  An upsert_user with mark_ingested false leaves the watermark
\* as it was while last_seen follows the payload; an incremental ingest_user
\* stops only at a record at or before the watermark the user had when the
\* call began, and for a user without a watermark it upserts every listed
\* match, those older than last_seen included.
C22_CutoffIsWatermarkNotLastSeen ==
    /\ (obs.payload # NoPayload /\ ~obs.mark_ingested) =>
          /\ RowAfter.ingested_until =
                (IF obs.payload.uid \in DOMAIN obs.start_store.users
                 THEN RowBefore.ingested_until ELSE NoTime)
          /\ RowAfter.last_seen >= obs.payload.startDtm
    /\ (UndisturbedIngest /\ obs.stopped) =>
          /\ WatermarkAtStart # NoTime
          /\ upstream.start[call.games[call.idx]] <= WatermarkAtStart
    /\ (UndisturbedIngest /\ call.pc = "done" /\ WatermarkAtStart = NoTime) =>
          Listed \subseteq obs.upserted

\* A user observed at time 2 with mark_ingested false, hence without a
\* watermark, was ingested incrementally and a match older than the
\* observation was upserted.
C22_OlderThanObservationIngested ==
    /\ UndisturbedIngest
    /\ call.pc = "done"
    /\ obs.arg \in DOMAIN obs.start_store.users
    /\ WatermarkAtStart = NoTime
    /\ obs.start_store.users[obs.arg].last_seen = 2
    /\ \E g \in obs.upserted : upstream.start[g] < 2

(* ----------------------------- the prune floor ------------------------- *)

\* The store may hold the prune floor 1 and a watermark 0 for the seed player;
\* incremental mode is on or off; a listed match started at 0, 1 or 2 or
\* carries no start time.
InitPrune ==
    InitWith({[EmptyStore EXCEPT !.prune_before = floor, !.users = rows] :
                 floor \in {NoTime, 1},
                 rows \in {<<>>, [u \in {"UA"} |-> SeenUser("seed", 0, TRUE)]}},
             {Config(newer, FALSE, FALSE, 0, 1, 1, 1, 1) : newer \in BOOLEAN},
             Upstreams(MaxListed, {NoTime, 0, 1, 2}, {<<>>}), {1}, 1)

NextPrune ==
    \/ StartIngestUser("UA", "")
    \/ FetchPage
    \/ ProcessRecord
    \/ Return

SpecPrune == InitPrune /\ [][NextPrune]_vars

\* Match g started after the floor, or its record carries no start time.
AfterFloor(g, floor) ==
    upstream.start[g] = NoTime \/ upstream.start[g] > floor

\* C23: with a prune floor stored, in incremental mode or not, ingest_user
\* passes no record whose start time is at or before the floor: it stops at
\* the first such record it reaches, that record and the later ones are not
\* upserted and no further page is fetched.
C23_StopsAtFirstRecordAtPruneFloor ==
    (call.op = "ingest" /\ obs.start_store.prune_before # NoTime) =>
        /\ call.prune_cutoff = obs.start_store.prune_before
        /\ \A g \in obs.upserted : AfterFloor(g, call.prune_cutoff)
        /\ call.pc = "records" =>
              /\ \A g \in Before(call.idx) : AfterFloor(g, call.prune_cutoff)
              /\ From(call.idx) \cap obs.upserted = {}
        /\ obs.stopped =>
              /\ call.pc = "done"
              /\ From(call.idx) \cap obs.upserted = {}
              /\ ~obs.after_stop
        /\ (call.pc = "done" /\ ~obs.stopped /\ ~call.aborted) =>
              \A g \in Listed : AfterFloor(g, call.prune_cutoff)

\* With incremental mode off, the traversal upserted the first record of a
\* page, stopped at the second, which started at the floor, and left a
\* further page unfetched.
C23_StoppedAtFloorMidPage ==
    /\ call.op = "ingest"
    /\ ~cfg.only_newer_games
    /\ obs.stopped
    /\ call.pc = "done"
    /\ call.idx = 2
    /\ call.games[1] \in obs.upserted
    /\ upstream.start[call.games[2]] = call.prune_cutoff
    /\ NextToken(upstream, call.token) # 0

(* ------------------------- the cache-hit fast path --------------------- *)

\* Match 1 as stored by earlier passes, with the participations of the uids
\* in P (UA is the seed player, the others play under the nickname "dup").
CachedMatchStore(P) ==
    [EmptyStore EXCEPT
        !.users = [u \in P |-> SeenUser(IF u = "UA" THEN "seed" ELSE "dup",
                                        2, u = "UA")],
        !.matches = [g \in {1} |-> [start_dtm |-> 2, incomplete |-> FALSE]],
        !.stats = {<<1, u>> : u \in P}]

\* The store is empty or holds match 1 with one or two participants.
InitCache ==
    InitWith({EmptyStore} \cup
                 {CachedMatchStore(P) :
                     P \in {{"UA"}, {"UB"}, {"UA", "UB"}, {"UB", "UC"}}},
             ParticipantConfigs, ParticipantUpstreams, {2}, 1)

NextCache ==
    \/ StartIngestUser("UA", "")
    \/ FetchPage
    \/ ProcessRecord
    \/ ParticipantAttempt
    \/ Return
    \/ \E g \in Games : StartRefetch(<<g>>)

SpecCache == InitCache /\ [][NextCache]_vars

\* The participants the store holds for match g when the fast path is tested:
\* those stored before the call and the owner, whose record ingest_user has
\* just upserted.
CachedAtTest(g) ==
    get_participants_for_game(obs.start_store, g) \cup {obs.arg}

\* client.fetch_game_result(g) was called by the ingest_user call in progress.
GameResultCalled(g) == g \in obs.fetched \/ obs.aborted = g

\* C24: for a match that was in the store before the pass, with no forced
\* re-fetch and more than one participant stored, participant reconciliation
\* returns the latest nicknames of the stored participants and does not call
\* fetch_game_result; with at most one participant stored, for a match new
\* to the store, or on a forced re-fetch, the remote client is called.
C24_CacheHitSkipsFetch ==
    \A g \in Games :
       /\ (call.op = "ingest" /\ g \in obs.upserted) =>
             IF g \in DOMAIN obs.start_store.matches
                /\ Cardinality(CachedAtTest(g)) > 1
             THEN /\ ~GameResultCalled(g)
                  /\ get_participants_for_game(store, g) = CachedAtTest(g)
                  /\ {store.users[u].nickname : u \in CachedAtTest(g)}
                        \subseteq call.discovered
             ELSE GameResultCalled(g)
       /\ (call.op = "refetch" /\ call.game = g) =>
             \E o \in GameResultOutcomes : Refetched(g, o)

\* Match 1 was stored with the seed player and another participant; the
\* traversal went over it without calling fetch_game_result and returned
\* both nicknames.
C24_KnownMatchServedFromStore ==
    /\ call.op = "ingest"
    /\ call.pc = "done"
    /\ get_participants_for_game(obs.start_store, 1) = {"UA", "UB"}
    /\ 1 \in obs.upserted
    /\ ~GameResultCalled(1)
    /\ {"seed", "dup"} \subseteq call.discovered

(* ------------------------ the depth of the traversal ------------------- *)

\* Participants are fetched; a listed match started at 0 and was played with
\* nobody else, with "dup" or with "far"; the listing is split over two
\* pages.
InitBfs ==
    InitWith({EmptyStore}, {Config(FALSE, TRUE, FALSE, 0, 1, 1, 1, 1)},
             {u \in Upstreams(MaxGame, {0},
                              {<<>>, <<Entry("dup", 0, FALSE)>>,
                               <<Entry("far", 0, FALSE)>>}) :
                 Len(u.pages) > 1},
             {1}, 1)

NextBfs ==
    \/ \E s \in {<<"seed">>, <<"seed", "dup">>}, d \in 0..2 :
          IngestFromSeeds(s, d)
    \/ NextSeed
    \/ ValidateSeed
    \/ FetchPage
    \/ ProcessRecord
    \/ ParticipantAttempt
    \/ SeedReturn
    \/ Return

SpecBfs == InitBfs /\ [][NextBfs]_vars

\* Nickname n stands at the end of a discovery chain of d hops: it is a seed
\* (d = 0), or it was returned by the ingest_user call of a nickname that was
\* ingested at d - 1 hops.
DiscoveredAt(n, d) ==
    IF d = 0 THEN n \in Range(obs.given)
    ELSE \E parent \in Nicknames :
            <<parent, d - 1>> \in obs.levels /\ <<parent, n>> \in obs.found

\* C25: ingest_from_seeds(seeds, depth) calls ingest_user only for nicknames
\* at a discovery distance of at most depth from a seed (the seeds are at
\* distance 0; with depth 0 no discovered nickname is ingested), and at most
\* once per nickname.
C25_IngestsWithinDepthOnce ==
    (call.op = "seeds" \/ call.caller = "seeds") =>
        /\ ~obs.restarted
        /\ \A level \in obs.levels :
              /\ level[2] <= call.depth
              /\ DiscoveredAt(level[1], level[2])
        /\ \A n \in obs.started : \E d \in 0..call.depth : <<n, d>> \in obs.levels
        /\ \A item \in Range(call.queue) : item.depth <= call.depth

\* With depth 1 the only seed returned "dup", which was ingested at one hop
\* and returned "far": "far", two hops away, was not ingested.
C25_SecondHopNotIngested ==
    /\ call.op = "seeds"
    /\ call.pc = "done"
    /\ call.depth = 1
    /\ obs.given = <<"seed">>
    /\ <<"dup", 1>> \in obs.levels
    /\ <<"dup", "far">> \in obs.found
    /\ <<"seed", "far">> \notin obs.found
    /\ "far" \notin obs.started

(* ---------------------------- full traversal --------------------------- *)

\* Participant lists of the full traversal: nobody, one other player (well
\* formed or with a malformed record), or two other players (the first of
\* whom may lack a required field).
TraversalRosters ==
    {<<>>,
     <<Entry("far", 2, FALSE)>>,
     <<Entry("far", 2, TRUE)>>,
     <<Entry("seed", 2, FALSE), Entry("dup", 2, FALSE)>>,
     <<[Entry("far", 2, FALSE) EXCEPT !.fatal = TRUE],
       Entry("dup", 2, FALSE)>>}

\* An empty store, participant fetching on, no cutoff, no per-user limit; the
\* listing is served on one page or on two and every match has its own
\* participant list.
InitTraversal ==
    InitWith({EmptyStore}, ParticipantConfigs,
             Upstreams(MaxGame, {2}, TraversalRosters),
             {1}, MaxParticipantCalls)

SpecTraversal == InitTraversal /\ [][NextCache]_vars

\* ingest_user returned and every fetch_user_games call of it was answered.
TraversalReturned ==
    /\ call.pc = "done"
    /\ call.op = "ingest"
    /\ obs.answers \subseteq {"ok"}

\* The participants fetch_game_result serves, as <<game id, nickname>>.
FetchedParticipants ==
    UNION {{<<g, e.nickname>> : e \in Range(upstream.roster[g])} :
              g \in Listed}

\* Every fetched participant was resolved to a uid and given to the store.
AllResolved ==
    \A p \in FetchedParticipants :
        \E u \in Uids : <<p[1], p[2], u>> \in obs.persisted

\* One Match row per listed match, one Participation row for the owner and
\* one per fetched participant, and the nicknames of the fetched participants
\* as the returned set.
FullyIngested ==
    /\ DOMAIN store.matches = Listed
    /\ obs.upserted = Listed
    /\ store.stats = {<<g, call.uid>> : g \in Listed}
                     \cup {<<p[1], p[3]>> : p \in obs.persisted}
    /\ \A p \in FetchedParticipants :
          \E u \in Uids : <<p[1], u>> \in store.stats
                          /\ <<p[1], p[2], u>> \in obs.persisted
    /\ call.discovered = {p[2] : p \in FetchedParticipants}

Unprocessed(g) ==
    {e.nickname : e \in Range(upstream.roster[g])}
        \ ({p[2] : p \in {q \in obs.persisted : q[1] = g}}
           \cup {obs.part.nickname})

\* C34 as stated: a participant whose upsert fails with any upsert-time error
\* is counted as failed and never aborts the match: no exception leaves the
\* participant loop and every remaining participant is processed.
C34_UpsertErrorNeverAbortsMatch ==
    \A g \in obs.fetched :
        /\ (call.pc = "raised" /\ obs.aborted = g) => obs.cause # "upsert"
        /\ (call.game # g \/ call.pc \in {"done", "raised"}) =>
               Unprocessed(g) = {}

\* C35 as stated: a match whose earlier participant fetch raised is not
\* taken for reconciled: when the same manager meets it again, its
\* participants are fetched again.
C35_FailedFetchFetchedAgain ==
    (call.op = "ingest" /\ cfg.fetch_game_details) =>
        \A g \in obs.fetch_failed \cap obs.upserted :
            \/ g \in obs.fetched
            \/ call.pc = "raised" /\ obs.aborted = g

\* C36 as stated: refetch_incomplete_games calls fetch_game_result for every
\* match id it counts, also one the manager reconciled before, and counts a
\* match as empty only when the remote API served no participant for it.
C36_EveryCandidateFetched ==
    call.op = "refetch" =>
        /\ \A counter \in DOMAIN NoStats : \A g \in CountedAs(counter) :
               \E o \in GameResultOutcomes : Refetched(g, o)
        /\ \A g \in CountedAs("empty") :
               Refetched(g, "ok") /\ upstream.roster[g] = <<>>

(* -------------------------- resolver attempts -------------------------- *)

\* A loop that calls the resolver until it answers with a uid, whatever the
\* attempt limit and the 'not found' answers.
fetch_uid_attempts_until_uid(answers, attempt, max) ==
    LET hits == {i \in attempt..Len(answers) : answers[i] = "uid"}
    IN IF hits = {} THEN [calls |-> Len(answers), result |-> "error"]
       ELSE [calls |-> CHOOSE i \in hits : \A j \in hits : i <= j,
             result |-> "uid"]

\* The "for attempt in range(1, max_nickname_attempts + 1)" loop of
\* _fetch_uid_with_retries from the attempt-th pass on: answers[i] is what the
\* i-th fetch_user_by_nickname call meets ("uid": a payload with a uid,
\* "notfound": an ApiResponseError that is_nickname_not_found_error accepts,
\* "error": any other exception or a payload without a uid).
RECURSIVE fetch_uid_attempts(_, _, _)
fetch_uid_attempts(answers, attempt, max) ==
    IF attempt > max THEN [calls |-> attempt - 1, result |-> "error"]
    ELSE IF answers[attempt] = "uid"
    THEN [calls |-> attempt, result |-> "uid"]
    ELSE IF answers[attempt] = "notfound"
    THEN [calls |-> attempt, result |-> "notfound"]
    ELSE IF attempt >= max THEN [calls |-> attempt, result |-> "error"]
    ELSE fetch_uid_attempts(answers, attempt + 1, max)

\* One _fetch_uid_with_retries(nickname) call against a resolver that would
\* answer answers[i] to the i-th call and knows the nickname as uid u; it is
\* one of the calls still to be started.
RemoteResolution(nickname, answers, u) ==
    /\ call.pc = "idle"
    /\ obs.left > 0
    /\ \E loop \in {IF nickname \in mgr.not_found
                    THEN [calls |-> 0, result |-> "error"]
                    ELSE fetch_uid_attempts(answers, 1,
                                            cfg.max_nickname_attempts)} :
       \E r \in {[uid |-> IF loop.result = "uid" THEN u ELSE NoUid,
                  calls |-> loop.calls,
                  notfound |-> loop.result = "notfound"]} :
       \E res \in {fetch_uid_with_retries(mgr, nickname, r)} :
          /\ mgr' = res.mgr
          /\ obs' = [ObserveResolver(obs, nickname, r, res.lookup) EXCEPT
                       !.left = @ - 1,
                       !.resolution =
                          [nickname |-> nickname, answers |-> answers,
                           calls |-> r.calls, uid |-> res.uid,
                           notfound |-> r.notfound,
                           memo |-> nickname \in mgr.not_found]]
    /\ UNCHANGED <<store, committed, cfg, now, upstream, call>>

\* An empty store; the resolver is tried up to 1, 2 or 3 times, a participant
\* once or twice; the seed player has one match with one other participant.
InitRetries ==
    InitWith({EmptyStore},
             {Config(FALSE, TRUE, p, 0, n, 1, 1, k) :
                 p \in BOOLEAN, n \in 1..MaxNicknameAttempts, k \in 1..2},
             Upstreams(1, {2}, {<<Entry("dup", 2, FALSE)>>}),
             {1}, MaxCalls)

NextRetries ==
    \/ \E n \in {"dup", "far"}, u \in {"UB"},
          a \in [1..(MaxNicknameAttempts + 1) -> {"uid", "notfound", "error"}] :
          RemoteResolution(n, a, u)
    \/ StartIngestUser("UA", "")
    \/ FetchPage
    \/ ProcessRecord
    \/ ParticipantAttempt
    \/ Return

SpecRetries == InitRetries /\ [][NextRetries]_vars

\* The first k answers of the last remote resolution were all failures that
\* are not 'not found'.
FailedUpTo(k) ==
    \A i \in 1..k : obs.resolution.answers[i] = "error"

\* The last participant handled was not resolved: the remote resolver was
\* called for its nickname and gave no uid.
ParticipantUnresolved ==
    /\ call.op = "ingest"
    /\ obs.part.nickname # ""
    /\ obs.part.uid = NoUid
    /\ obs.part.lookup
    /\ ~obs.part.probed

\* C30: one remote resolution of a nickname calls the resolver at most
\* max_nickname_attempts times, each call but the last having failed; a 'not
\* found' answer is the last call made; when every attempt fails the
\* resolution returns no uid after max_nickname_attempts calls; and a
\* participant whose nickname was not resolved is skipped: no users row of
\* that nickname, no participation row and no returned nickname come of it,
\* and ingest_user does not raise.
C30_BoundedAttemptsThenSkipped ==
    /\ obs.resolution.nickname # "" =>
          /\ obs.resolution.calls <= cfg.max_nickname_attempts
          /\ FailedUpTo(obs.resolution.calls - 1)
          /\ obs.resolution.memo <=> obs.resolution.calls = 0
          /\ [uid |-> obs.resolution.uid, calls |-> obs.resolution.calls,
              notfound |-> obs.resolution.notfound]
               \in ResolverOutcomes(
                      [mgr EXCEPT !.not_found =
                          IF obs.resolution.memo
                          THEN {obs.resolution.nickname} ELSE {}],
                      cfg, obs.resolution.nickname)
          /\ \A i \in 1..cfg.max_nickname_attempts :
                (/\ ~obs.resolution.memo
                 /\ FailedUpTo(i - 1)
                 /\ obs.resolution.answers[i] = "notfound")
                => /\ obs.resolution.calls = i
                   /\ obs.resolution.uid = NoUid
                   /\ obs.resolution.nickname \in mgr.not_found
          /\ (~obs.resolution.memo /\ FailedUpTo(cfg.max_nickname_attempts))
                => /\ obs.resolution.calls = cfg.max_nickname_attempts
                   /\ obs.resolution.uid = NoUid
                   /\ ~obs.resolution.notfound
    /\ ParticipantUnresolved =>
          /\ \A u \in DOMAIN store.users :
                store.users[u].nickname # obs.part.nickname
          /\ \A p \in obs.persisted : p[2] # obs.part.nickname
          /\ store.stats \subseteq {<<g, call.uid>> : g \in Games}
          /\ obs.part.nickname \notin call.discovered
          /\ call.pc # "raised"

\* Every one of three allowed attempts failed and the resolution gave up,
\* after a traversal whose only participant was not resolved had returned.
C30_GaveUpAfterThreeAttempts ==
    /\ cfg.max_nickname_attempts = MaxNicknameAttempts
    /\ obs.resolution.nickname = "dup"
    /\ ~obs.resolution.memo
    /\ FailedUpTo(MaxNicknameAttempts)
    /\ obs.resolution.calls = MaxNicknameAttempts
    /\ obs.resolution.uid = NoUid
    /\ obs.part.nickname = "dup"
    /\ obs.part.uid = NoUid
    /\ obs.part.lookup
    /\ obs.upserted = {1}
    /\ obs.failed = {1}
    /\ DOMAIN store.users = {"UA"}

(* --------------------------- the per-user limit ------------------------ *)

\* Match 1 may carry a tombstone and the store may hold the prune floor 1.
LimitStores ==
    {[EmptyStore EXCEPT !.deleted_games = d, !.prune_before = floor] :
        d \in {{}, {1}}, floor \in {NoTime, 1}}

\* Incremental mode on or off; no per-user limit, or a limit of 1..MaxLimit
\* records; every listed match started at 1 or 2; the manager is called twice
\* over the same listing.
InitLimit ==
    InitWith(LimitStores,
             {Config(newer, FALSE, FALSE, n, 1, 1, 1, 1) :
                 newer \in BOOLEAN, n \in 0..MaxLimit},
             Upstreams(MaxListed, {1, 2}, {<<>>}), {1}, MaxCalls)

SpecLimit == InitLimit /\ [][NextPrune]_vars

\* C37: with max_games_per_user = N > 0, one ingest_user call upserts at most
\* N records of the match list, skipped tombstoned records not counted; once
\* N records are processed the call is over: no further record is taken and
\* no further page is fetched, with or without a cutoff.
C37_AtMostLimitRecords ==
    (call.op = "ingest" /\ cfg.max_games_per_user > 0) =>
        /\ Cardinality(obs.upserted) <= cfg.max_games_per_user
        /\ call.processed = Cardinality(obs.upserted)
        /\ obs.skipped \cap obs.upserted = {}
        /\ call.processed >= cfg.max_games_per_user =>
              /\ call.pc = "done"
              /\ ~call.aborted

\* A call stopped by the limit after a skipped tombstoned record, with a
\* further page to fetch and no cutoff.
C37_StoppedByLimit ==
    /\ call.op = "ingest"
    /\ call.pc = "done"
    /\ cfg.max_games_per_user = 1
    /\ ~cfg.only_newer_games
    /\ store.prune_before = NoTime
    /\ obs.skipped = {1}
    /\ obs.upserted = {2}
    /\ Listed = 1..MaxListed
    /\ NextToken(upstream, call.token) # 0

\* C39 as stated: between ingest_user passes over an unchanged listing,
\* however a pass ended, every listed match that started at or before the
\* seed player's watermark, after the prune floor, and that carries no
\* tombstone has a matches row.
C39_WatermarkCoversStoredMatches ==
    (call.pc \in {"idle", "done", "raised"}
     /\ get_user_ingested_until(store, "UA") # NoTime) =>
        \A g \in Listed :
            (/\ upstream.start[g] <= get_user_ingested_until(store, "UA")
             /\ AfterFloor(g, get_prune_before(store))
             /\ ~is_game_deleted(store, g)) => has_game(store, g)

(* -------------------------- identity resolution ------------------------ *)

\* _resolve_uid(nickname, start_dtm) as ingest_from_seeds (start_dtm = None)
\* and participant reconciliation call it.
ResolveNickname(nickname, start_dtm) ==
    /\ call.pc = "idle"
    /\ \E cache \in {CachedUids(store, cfg, nickname)} :
       \E cu \in (IF cache = {} THEN {NoUid} ELSE cache) :
       \E r \in (IF cu = NoUid THEN ResolverOutcomes(mgr, cfg, nickname)
                 ELSE {NoAnswer}) :
       \E res \in {resolve_uid(mgr, nickname, start_dtm, cu, r)} :
          /\ mgr' = res.mgr
          /\ obs' = ObserveResolver(
                        [obs EXCEPT !.part =
                            [NoPart EXCEPT !.nickname = nickname, !.cached = cu,
                                           !.uid = res.uid, !.lookup = res.lookup,
                                           !.startDtm = start_dtm,
                                           !.cached_seen =
                                               IF cu = NoUid THEN NoTime
                                               ELSE store.users[cu].last_seen]],
                        nickname, r, res.lookup)
    /\ UNCHANGED <<store, committed, cfg, now, upstream, call>>

\* UA and UB may each be cached for the nickname "dup", last seen at 0, 1 or 2.
ResolveStores ==
    {[EmptyStore EXCEPT !.users = [u \in us |-> SeenUser("dup", seen[u], FALSE)]] :
        us \in SUBSET {"UA", "UB"}, seen \in [{"UA", "UB"} -> 0..2]}

ResolveConfigs ==
    {Config(FALSE, TRUE, p, 0, n, 1, 1, 1) : p \in BOOLEAN, n \in 1..2}

InitResolve ==
    InitWith(ResolveStores, ResolveConfigs, Upstreams(1, {0}, {<<>>}), {1}, 0)

NextResolve ==
    \/ \E n \in Nicknames, t \in TimesOrNull : ResolveNickname(n, t)
    \/ NewRun

SpecResolve == InitResolve /\ [][NextResolve]_vars

\* The rows of the store that map the resolved nickname.
CachedRows == {u \in DOMAIN store.users :
                 store.users[u].nickname = obs.part.nickname}

\* The resolution answered from the cache: the uid of a row of the nickname
\* that no other row of the nickname was seen after, and no remote call.
AnsweredFromCache ==
    /\ obs.part.uid \in CachedRows
    /\ \A u \in CachedRows :
          store.users[u].last_seen <= store.users[obs.part.uid].last_seen
    /\ ~obs.part.lookup

StaleCache ==
    /\ CachedRows # {}
    /\ obs.part.startDtm # NoTime
    /\ \A u \in CachedRows :
          obs.part.startDtm - store.users[u].last_seen > nickname_recheck_interval

\* C9 as stated: a cached mapping older than the reference time by more than
\* nickname_recheck_interval is not trusted and the remote resolver is called.
C9_StaleCacheRefetched == StaleCache => obs.part.lookup

\* C9 amended: staleness plays no part; the remote resolver is called only
\* when the handle has no cached mapping or prefer_nickname_fetch is enabled,
\* and a stale cached mapping is returned without a remote call.
C9_RemoteOnlyWithoutCache ==
    /\ obs.part.lookup => (cfg.prefer_nickname_fetch \/ CachedRows = {})
    /\ (StaleCache /\ ~cfg.prefer_nickname_fetch) =>
          (obs.part.uid \in CachedRows /\ ~obs.part.lookup)

\* A stale cached mapping was returned without a remote call.
C9_StaleCacheReturned ==
    /\ StaleCache
    /\ ~cfg.prefer_nickname_fetch
    /\ obs.part.uid = obs.part.cached
    /\ obs.part.cached # NoUid
    /\ ~obs.part.lookup

=============================================================================
